---- MODULE Spec2Model ----
(***************************************************************************)
(* Passkey (WebAuthn) service: the PasskeyService ceremony orchestrator    *)
(* (api/src/lib/storage.ts) over the MemoryStorage store                   *)
(* (api/src/lib/memory-storage.ts).                                        *)
(*                                                                         *)
(* Every PasskeyService method is an async function.  A task runs from one *)
(* `await` to the next without interruption, so each method is cut into    *)
(* one action per segment that touches the store; a segment that touches   *)
(* only locals is merged into the segment before it.  The MemoryStorage    *)
(* methods contain no `await`: each of them runs inside one segment.       *)
(***************************************************************************)
EXTENDS Integers, Sequences, FiniteSets, TLC

(***************************************************************************)
(* Bounds of the model.                                                    *)
(***************************************************************************)
MaxChallenges == 2            \* challenges issued, requests served one at a time
MaxConcurrentChallenges == 2  \* challenges issued, requests served concurrently
MaxRaceChallenges == 3        \* challenges issued, in the longer concurrent runs
MaxTimedChallenges == 2       \* challenges issued, with the clock running
MaxCounter == 2               \* largest signature counter the verifier reports
MaxTicks == 2                 \* clock advances
MaxHttpChallenges == 2        \* challenges issued, requests arriving over HTTP
MaxBootChallenges == 2        \* challenges issued, after the module has loaded
MaxAccountChallenges == 3     \* challenges issued, for one account
MaxStoreChallenges == 2       \* challenges issued, with lookups by value
MaxStoredCredentials == 2     \* credentials of an identity, in direct store calls

Tasks == {"t1", "t2"}                 \* concurrently served requests
Usernames == {"a@x.com", "b@x.com"}   \* non-empty usernames
DisplayNames == {"U One"}
SuppliedUserIds == {"ext-1"}          \* userId argument, when one is given
RawCredentialIDs == {<<1>>, <<2>>}    \* credentialID bytes the verifier extracts
RawPublicKeys == {<<7>>}              \* credentialPublicKey bytes
TransportHints == {<<"internal">>}    \* response.response.transports

Null == [null |-> TRUE]               \* null / undefined
NoUsername == ""                      \* '' or undefined username (both falsy)
NoUserId == ""                        \* '' or undefined userId (both falsy)

(***************************************************************************)
(* Buffer.from(bytes).toString('base64url') and                            *)
(* Buffer.from(text, 'base64url'), on strings held as tuples of            *)
(* characters.                                                             *)
(***************************************************************************)
Base64UrlAlphabet ==
  << "A","B","C","D","E","F","G","H","I","J","K","L","M","N","O","P",
     "Q","R","S","T","U","V","W","X","Y","Z","a","b","c","d","e","f",
     "g","h","i","j","k","l","m","n","o","p","q","r","s","t","u","v",
     "w","x","y","z","0","1","2","3","4","5","6","7","8","9","-","_" >>

B64Char(n) == Base64UrlAlphabet[n + 1]

B64Index(c) == (CHOOSE i \in 1..64 : Base64UrlAlphabet[i] = c) - 1

RECURSIVE Base64UrlEncode(_)
Base64UrlEncode(bytes) ==
  IF Len(bytes) = 0 THEN <<>>
  ELSE IF Len(bytes) = 1 THEN
    << B64Char(bytes[1] \div 4), B64Char((bytes[1] % 4) * 16) >>
  ELSE IF Len(bytes) = 2 THEN
    << B64Char(bytes[1] \div 4),
       B64Char((bytes[1] % 4) * 16 + bytes[2] \div 16),
       B64Char((bytes[2] % 16) * 4) >>
  ELSE
    << B64Char(bytes[1] \div 4),
       B64Char((bytes[1] % 4) * 16 + bytes[2] \div 16),
       B64Char((bytes[2] % 16) * 4 + bytes[3] \div 64),
       B64Char(bytes[3] % 64) >>
    \o Base64UrlEncode(SubSeq(bytes, 4, Len(bytes)))

RECURSIVE Base64UrlDecode(_)
Base64UrlDecode(text) ==
  IF Len(text) < 2 THEN <<>>
  ELSE IF Len(text) = 2 THEN
    << B64Index(text[1]) * 4 + B64Index(text[2]) \div 16 >>
  ELSE IF Len(text) = 3 THEN
    << B64Index(text[1]) * 4 + B64Index(text[2]) \div 16,
       (B64Index(text[2]) % 16) * 16 + B64Index(text[3]) \div 4 >>
  ELSE
    << B64Index(text[1]) * 4 + B64Index(text[2]) \div 16,
       (B64Index(text[2]) % 16) * 16 + B64Index(text[3]) \div 4,
       (B64Index(text[3]) % 4) * 64 + B64Index(text[4]) >>
    \o Base64UrlDecode(SubSeq(text, 5, Len(text)))

CredentialIds == { Base64UrlEncode(raw) : raw \in RawCredentialIDs }

(***************************************************************************)
(* State.                                                                  *)
(***************************************************************************)
VARIABLES
  users,              \* MemoryStorage.users: username -> UserPasskey
  credentialIndex,    \* MemoryStorage.credentialIndex: credentialId -> username
  challenges,         \* MemoryStorage.challenges: key -> Challenge
  challengesByValue,  \* MemoryStorage.challengesByValue: challenge -> Challenge
  now,                \* Date.now(), in milliseconds
  nextChallenge,      \* challenges generated so far (each one is fresh)
  nextUserId,         \* user ids generated so far (each one is fresh)
  task,               \* per request: position, arguments and locals of its call
  returned,           \* the call that has just ended, and its outcome
  firstUserId,        \* history: username -> userId its first registration returned
  consumed,           \* history: how often getAndDeleteChallenge returned a value
  verifierLog,        \* history: how often the verifier was handed a value
  swept,              \* history: challenges that were stored, past their
                      \* expiresAt, when cleanupExpiredChallenges ran
  replaced,           \* history: challenges that saveChallenge has replaced
                      \* under their key
  http,               \* the HTTP exchange a route handler has just answered
  route,              \* per request: the route handler awaiting its call
  nodeEnv,            \* process.env.NODE_ENV of the server
  memoryStorage,      \* the memoryStorage singleton: whether it was constructed
  service,            \* the application's PasskeyService: the storage its
                      \* config supplies, whether it was constructed, and
                      \* the storage it then uses
  window,             \* the global `window` where the client package runs
  calls,              \* per client call: position, arguments and locals
  finished,           \* the client call that has just ended, and its outcome
  isLoading,          \* usePasskey: the isLoading state
  error               \* usePasskey: the error state

vars == << users, credentialIndex, challenges, challengesByValue, now,
           nextChallenge, nextUserId, task, returned, firstUserId, consumed,
           verifierLog, swept, replaced, http, route, nodeEnv, memoryStorage,
           service, window,
           calls, finished, isLoading, error >>

storeVars == << users, credentialIndex, challenges, challengesByValue >>

historyVars == << firstUserId, consumed, verifierLog, swept, replaced >>

httpVars == << http, route >>

bootVars == << nodeEnv, memoryStorage, service >>

browserVars == << window, calls, finished, isLoading, error >>

(***************************************************************************)
(* JavaScript Map.                                                         *)
(***************************************************************************)
EmptyMap == [k \in {} |-> Null]

MapHas(m, k) == k \in DOMAIN m

MapGet(m, k) == IF k \in DOMAIN m THEN m[k] ELSE Null

MapSet(m, k, v) == [x \in DOMAIN m \cup {k} |-> IF x = k THEN v ELSE m[x]]

MapDelete(m, k) == [x \in DOMAIN m \ {k} |-> m[x]]

\* A history of occurrences: value -> how many times.
Count(log, v) == IF v \in DOMAIN log THEN log[v] ELSE 0

Logged(log, v) == MapSet(log, v, Count(log, v) + 1)

(***************************************************************************)
(* Time and randomness.                                                    *)
(***************************************************************************)
ChallengeTTL == 5 * 60 * 1000

TickMs == 3 * 60 * 1000

ChallengeValue(n) == "ch" \o ToString(n)

generateUserId == "uid" \o ToString(nextUserId + 1)

(***************************************************************************)
(* MemoryStorage (memory-storage.ts).  A method that returns a value is an *)
(* operator over the current state; a method that writes is an action over *)
(* the store's variables it assigns.                                       *)
(***************************************************************************)
CredentialIdsOf(credentials) == { credentials[i].id : i \in DOMAIN credentials }

HasCredential(credentials, credentialId) ==
  \E i \in DOMAIN credentials : credentials[i].id = credentialId

\* Array.prototype.find: the first element with that id.
FindCredential(credentials, credentialId) ==
  IF HasCredential(credentials, credentialId)
  THEN credentials[CHOOSE i \in DOMAIN credentials :
                     /\ credentials[i].id = credentialId
                     /\ \A j \in 1..(i - 1) : credentials[j].id # credentialId]
  ELSE Null

\* A saveUser that stores the identity and leaves the index alone.
saveUser_Unindexed(user) ==
  /\ users' = MapSet(users, user.username, user)
  /\ UNCHANGED credentialIndex

saveUser(user) ==
  /\ users' = MapSet(users, user.username, user)
  /\ credentialIndex' =
       [id \in DOMAIN credentialIndex \cup CredentialIdsOf(user.credentials) |->
          IF id \in CredentialIdsOf(user.credentials)
          THEN user.username ELSE credentialIndex[id]]

getUserByUsername(username) == MapGet(users, username)

\* if (!username) return null: no index entry, or an empty username.
getUserByCredentialId(credentialId) ==
  IF ~MapHas(credentialIndex, credentialId) THEN Null
  ELSE IF credentialIndex[credentialId] = "" THEN Null
  ELSE MapGet(users, credentialIndex[credentialId])

\* addCredential throws "User not found" when the username has no identity.
addCredentialThrows(username) == ~MapHas(users, username)

\* An addCredential that puts the credential at the head of the list.
addCredential_Prepends(username, credential) ==
  /\ users' = MapSet(users, username,
       [users[username] EXCEPT
          !.credentials = << credential >> \o @,
          !.updatedAt = now])
  /\ credentialIndex' = MapSet(credentialIndex, credential.id, username)

\* An addCredential that appends the credential and does not index it.
addCredential_Unindexed(username, credential) ==
  /\ users' = MapSet(users, username,
       [users[username] EXCEPT
          !.credentials = Append(@, credential),
          !.updatedAt = now])
  /\ UNCHANGED credentialIndex

addCredential(username, credential) ==
  /\ users' = MapSet(users, username,
       [users[username] EXCEPT
          !.credentials = Append(@, credential),
          !.updatedAt = now])
  /\ credentialIndex' = MapSet(credentialIndex, credential.id, username)

\* The message updateCredentialCounter throws, "" when it does not throw.
\* A store that reports an unindexed credential as a missing user.
updateCredentialCounterError_UserFirst(credentialId) ==
  IF ~MapHas(credentialIndex, credentialId) THEN "User not found"
  ELSE IF ~HasCredential(users[credentialIndex[credentialId]].credentials,
                         credentialId)
    THEN "Credential not found"
  ELSE ""

updateCredentialCounterError(credentialId) ==
  IF ~MapHas(credentialIndex, credentialId) THEN "Credential not found"
  ELSE IF credentialIndex[credentialId] = "" THEN "Credential not found"
  ELSE IF ~MapHas(users, credentialIndex[credentialId]) THEN "User not found"
  ELSE IF ~HasCredential(users[credentialIndex[credentialId]].credentials,
                         credentialId)
    THEN "Credential not found"
  ELSE ""

SetCounter(credentials, credentialId, counter) ==
  LET first == CHOOSE i \in DOMAIN credentials :
                 /\ credentials[i].id = credentialId
                 /\ \A j \in 1..(i - 1) : credentials[j].id # credentialId
  IN [credentials EXCEPT ![first].counter = counter]

\* An updateCredentialCounter that finds the credential and writes nothing.
updateCredentialCounter_Keeps(credentialId, counter) ==
  UNCHANGED << users, credentialIndex >>

updateCredentialCounter(credentialId, counter) ==
  /\ users' = MapSet(users, credentialIndex[credentialId],
       [users[credentialIndex[credentialId]] EXCEPT
          !.credentials = SetCounter(@, credentialId, counter),
          !.updatedAt = now])
  /\ UNCHANGED credentialIndex

\* The key saveChallenge files a challenge under.
ChallengeKey(challenge) ==
  IF challenge.username # "" THEN challenge.username ELSE challenge.challenge

\* A saveChallenge that keeps the new challenge only.
saveChallenge_Only(challenge) ==
  /\ challenges' = MapSet(EmptyMap, ChallengeKey(challenge), challenge)
  /\ challengesByValue' = MapSet(EmptyMap, challenge.challenge, challenge)

saveChallenge(challenge) ==
  /\ challenges' = MapSet(challenges, ChallengeKey(challenge), challenge)
  /\ challengesByValue' = MapSet(challengesByValue, challenge.challenge, challenge)

\* The challenge that saveChallenge(challenge) replaces under its key.
Replaces(challenge) ==
  IF MapHas(challenges, ChallengeKey(challenge))
  THEN {challenges[ChallengeKey(challenge)].challenge} \ {challenge.challenge}
  ELSE {}

\* What getAndDeleteChallenge returns.
getAndDeleteChallengeResult(username) == MapGet(challenges, username)

\* A getAndDeleteChallenge that returns the challenge and leaves it stored.
getAndDeleteChallenge_Keeps(username) ==
  UNCHANGED << challenges, challengesByValue >>

\* A getAndDeleteChallenge that clears the by-value index only.
getAndDeleteChallenge_ByValueOnly(username) ==
  /\ challengesByValue' =
       IF MapHas(challenges, username)
       THEN MapDelete(challengesByValue, challenges[username].challenge)
       ELSE challengesByValue
  /\ UNCHANGED challenges

\* What getAndDeleteChallenge does to the store.
getAndDeleteChallenge(username) ==
  IF MapHas(challenges, username)
  THEN /\ challenges' = MapDelete(challenges, username)
       /\ challengesByValue' =
            MapDelete(challengesByValue, challenges[username].challenge)
  ELSE UNCHANGED << challenges, challengesByValue >>

\* What getAndDeleteChallengeByValue returns.
getAndDeleteChallengeByValueResult(challengeValue) ==
  MapGet(challengesByValue, challengeValue)

\* What getAndDeleteChallengeByValue does to the store.
getAndDeleteChallengeByValue(challengeValue) ==
  IF MapHas(challengesByValue, challengeValue)
  THEN /\ challengesByValue' = MapDelete(challengesByValue, challengeValue)
       /\ challenges' =
            MapDelete(challenges, ChallengeKey(challengesByValue[challengeValue]))
  ELSE UNCHANGED << challenges, challengesByValue >>

(***************************************************************************)
(* Requests.  task[t] is the frame of the PasskeyService call that request *)
(* t is running: its position (pc), its arguments and its locals.  `user`  *)
(* is a reference to a UserPasskey object of the store: the object         *)
(* MemoryStorage.users holds under user.username while `detached` is Null, *)
(* and the object saveUser has since replaced there (kept as it was when   *)
(* replaced) otherwise.  `returned` holds, in the state a call ends in,    *)
(* that call and what it returned or threw.                                *)
(***************************************************************************)
NoResult == [status |-> "none", error |-> "", value |-> Null]

Returned(value) == [status |-> "ok", error |-> "", value |-> value]

Threw(message) == [status |-> "error", error |-> message, value |-> Null]

\* No counter: the verifier has reported none.
NoCounter == -1

IdleTask ==
  [pc |-> "idle", op |-> "", username |-> NoUsername, userId |-> NoUserId,
   displayName |-> "", response |-> Null,
   userIdToUse |-> NoUserId, challenge |-> Null, user |-> Null,
   credential |-> Null, descriptors |-> Null, newCounter |-> NoCounter]

NoReturn ==
  [task |-> "", op |-> "", username |-> NoUsername, userId |-> NoUserId,
   displayName |-> "", response |-> Null, newCounter |-> NoCounter,
   result |-> NoResult]

Outcome(t, frame, result) ==
  [task |-> t, op |-> frame.op, username |-> frame.username,
   userId |-> frame.userId, displayName |-> frame.displayName,
   response |-> frame.response, newCounter |-> frame.newCounter,
   result |-> result]

\* The call of t goes on, in `frame`, after its next await.
Continue(t, frame) ==
  /\ task' = [task EXCEPT ![t] = frame]
  /\ returned' = NoReturn

\* The call of t, in `frame`, ends with `result`.
End(t, frame, result) ==
  /\ task' = [task EXCEPT ![t] = IdleTask]
  /\ returned' = Outcome(t, frame, result)

Ref(user) ==
  IF user = Null THEN Null ELSE [username |-> user.username, detached |-> Null]

Deref(ref) ==
  IF ref.detached = Null THEN users[ref.username] ELSE ref.detached

\* saveUser(user) puts a new object under username: every frame that refers
\* to the object it replaces keeps that object.
Detach(frames, username) ==
  [o \in Tasks |->
     IF /\ MapHas(users, username)
        /\ frames[o].user # Null
        /\ frames[o].user.detached = Null
        /\ frames[o].user.username = username
     THEN [frames[o] EXCEPT !.user.detached = users[username]]
     ELSE frames[o]]

Idle(t) == task[t].pc = "idle"

\* Option-generation calls in flight: each will issue one challenge.
Issuing == { t \in Tasks : task[t].pc \in {"greg_exclude", "greg_save",
                                            "gauth_allow", "gauth_save"} }

CanIssue(budget) == nextChallenge + Cardinality(Issuing) < budget

\* A descriptor list that names the first credential only.
CredentialDescriptors_First(credentials) ==
  [i \in DOMAIN credentials \cap {1} |->
     [id |-> Base64UrlDecode(credentials[i].id),
      transports |-> credentials[i].transports]]

\* A descriptor list that leaves every credential out.
CredentialDescriptors_None(credentials) == << >>

\* Buffer.from(cred.id, 'base64url') for each credential, in order.
CredentialDescriptors(credentials) ==
  [i \in DOMAIN credentials |->
     [id |-> Base64UrlDecode(credentials[i].id),
      transports |-> credentials[i].transports]]

(***************************************************************************)
(* PasskeyService.generateRegistrationOptions(username, displayName,       *)
(* userId?)                                                                *)
(***************************************************************************)
\* userId || this.generateUserId()
UserIdToUse(username, userId) ==
  IF userId # NoUserId THEN userId ELSE generateUserId

\* Up to the first await: the user id, and the getUserByUsername call.
generateRegistrationOptions(t, username, displayName, userId) ==
  /\ Idle(t)
  /\ Continue(t, [IdleTask EXCEPT
          !.pc = "greg_exclude", !.op = "generateRegistrationOptions",
          !.username = username, !.displayName = displayName,
          !.userId = userId,
          !.userIdToUse = UserIdToUse(username, userId),
          !.user = Ref(getUserByUsername(username))])
  /\ nextUserId' = IF userId # NoUserId THEN nextUserId ELSE nextUserId + 1
  /\ UNCHANGED << storeVars, now, nextChallenge, historyVars >>

\* existingUser?.credentials.map(...) || [], then the option builder is called.
generateRegistrationOptions_exclude(t) ==
  /\ task[t].pc = "greg_exclude"
  /\ Continue(t, [task[t] EXCEPT
          !.pc = "greg_save",
          !.user = Null,
          !.descriptors =
             IF task[t].user = Null THEN <<>>
             ELSE CredentialDescriptors(Deref(task[t].user).credentials)])
  /\ UNCHANGED << storeVars, now, nextChallenge, nextUserId, historyVars >>

RegistrationChallenge(frame) ==
  [challenge |-> ChallengeValue(nextChallenge + 1),
   userId |-> frame.userIdToUse,
   username |-> frame.username,
   createdAt |-> now,
   expiresAt |-> now + ChallengeTTL]

\* The options come back: the challenge is saved and the options returned.
generateRegistrationOptions_save(t) ==
  /\ task[t].pc = "greg_save"
  /\ saveChallenge(RegistrationChallenge(task[t]))
  /\ replaced' = replaced \cup Replaces(RegistrationChallenge(task[t]))
  /\ nextChallenge' = nextChallenge + 1
  /\ End(t, task[t], Returned(
       [challenge |-> ChallengeValue(nextChallenge + 1),
        user |-> [id |-> task[t].userIdToUse, name |-> task[t].username,
                  displayName |-> task[t].displayName],
        excludeCredentials |-> task[t].descriptors]))
  /\ UNCHANGED << users, credentialIndex, now, nextUserId, firstUserId,
                  consumed, verifierLog, swept >>

(***************************************************************************)
(* PasskeyService.verifyRegistration(username, response)                   *)
(***************************************************************************)
InitialCounters == {0}      \* registrationInfo.counter

\* getAndDeleteChallenge(username); without a challenge the call throws,
\* with one the verifier is called with it as expectedChallenge.
verifyRegistration(t, username, response) ==
  /\ Idle(t)
  /\ getAndDeleteChallenge(username)
  /\ LET challenge == getAndDeleteChallengeResult(username)
         frame == [IdleTask EXCEPT !.op = "verifyRegistration",
                                   !.username = username,
                                   !.response = response]
     IN IF challenge = Null
        THEN /\ End(t, frame, Threw("Challenge not found or expired"))
             /\ UNCHANGED << consumed, verifierLog >>
        ELSE /\ Continue(t, [frame EXCEPT !.pc = "vreg_verify",
                                          !.challenge = challenge])
             /\ consumed' = Logged(consumed, challenge.challenge)
             /\ verifierLog' = Logged(verifierLog, challenge.challenge)
  /\ UNCHANGED << users, credentialIndex, now, nextChallenge, nextUserId,
                  firstUserId, swept, replaced >>

\* The verifier answers; on success the credential is built and
\* getUserByUsername is called.
verifyRegistration_verify(t) ==
  /\ task[t].pc = "vreg_verify"
  /\ \/ End(t, task[t], Threw("Registration verification failed"))
     \/ \E credentialID \in RawCredentialIDs, credentialPublicKey \in RawPublicKeys,
           counter \in InitialCounters :
          Continue(t, [task[t] EXCEPT
               !.pc = "vreg_store",
               !.credential =
                  [id |-> Base64UrlEncode(credentialID),
                   publicKey |-> Base64UrlEncode(credentialPublicKey),
                   counter |-> counter,
                   transports |-> task[t].response.transports,
                   createdAt |-> now],
               !.user = Ref(getUserByUsername(task[t].username))])
  /\ UNCHANGED << storeVars, now, nextChallenge, nextUserId, historyVars >>

\* A new identity that gets a freshly generated userId.
NewUser_FreshUserId(frame) ==
  [userId |-> generateUserId,
   username |-> frame.username,
   displayName |-> frame.username,
   credentials |-> << frame.credential >>,
   createdAt |-> now,
   updatedAt |-> now]

NewUser(frame) ==
  [userId |-> frame.challenge.userId,
   username |-> frame.username,
   displayName |-> frame.username,
   credentials |-> << frame.credential >>,
   createdAt |-> now,
   updatedAt |-> now]

RegistrationResult(frame) ==
  [verified |-> TRUE,
   userId |-> frame.challenge.userId,
   credentialId |-> frame.credential.id]

\* existingUser ? addCredential : saveUser, then the result is returned.
verifyRegistration_store(t) ==
  /\ task[t].pc = "vreg_store"
  /\ IF task[t].user # Null
     THEN IF addCredentialThrows(task[t].username)
          THEN /\ End(t, task[t], Threw("User not found"))
               /\ UNCHANGED << users, credentialIndex >>
          ELSE /\ addCredential(task[t].username, task[t].credential)
               /\ End(t, task[t], Returned(RegistrationResult(task[t])))
     ELSE /\ saveUser(NewUser(task[t]))
          /\ task' = [Detach(task, task[t].username) EXCEPT ![t] = IdleTask]
          /\ returned' = Outcome(t, task[t], Returned(RegistrationResult(task[t])))
  /\ firstUserId' =
       IF returned'.result.status = "ok" /\ ~MapHas(firstUserId, task[t].username)
       THEN MapSet(firstUserId, task[t].username, returned'.result.value.userId)
       ELSE firstUserId
  /\ UNCHANGED << challenges, challengesByValue, now, nextChallenge,
                  nextUserId, consumed, verifierLog, swept, replaced >>

(***************************************************************************)
(* PasskeyService.generateAuthenticationOptions(username?)                 *)
(***************************************************************************)
\* With a username getAllowCredentials calls getUserByUsername; without one
\* the allow-list is undefined and the option builder is called at once.
generateAuthenticationOptions(t, username) ==
  /\ Idle(t)
  /\ Continue(t, [IdleTask EXCEPT
          !.pc = IF username # NoUsername THEN "gauth_allow" ELSE "gauth_save",
          !.op = "generateAuthenticationOptions",
          !.username = username,
          !.user = IF username # NoUsername
                   THEN Ref(getUserByUsername(username)) ELSE Null])
  /\ UNCHANGED << storeVars, now, nextChallenge, nextUserId, historyVars >>

\* getAllowCredentials: [] for an unknown user, else user.credentials.map(...).
generateAuthenticationOptions_allow(t) ==
  /\ task[t].pc = "gauth_allow"
  /\ Continue(t, [task[t] EXCEPT
          !.pc = "gauth_save",
          !.user = Null,
          !.descriptors =
             IF task[t].user = Null THEN <<>>
             ELSE CredentialDescriptors(Deref(task[t].user).credentials)])
  /\ UNCHANGED << storeVars, now, nextChallenge, nextUserId, historyVars >>

AuthenticationChallenge(frame) ==
  [challenge |-> ChallengeValue(nextChallenge + 1),
   userId |-> NoUserId,
   username |-> IF frame.username # NoUsername THEN frame.username ELSE "",
   createdAt |-> now,
   expiresAt |-> now + ChallengeTTL]

\* The options come back: the challenge is saved and the options returned.
generateAuthenticationOptions_save(t) ==
  /\ task[t].pc = "gauth_save"
  /\ saveChallenge(AuthenticationChallenge(task[t]))
  /\ replaced' = replaced \cup Replaces(AuthenticationChallenge(task[t]))
  /\ nextChallenge' = nextChallenge + 1
  /\ End(t, task[t], Returned(
       [challenge |-> ChallengeValue(nextChallenge + 1),
        allowCredentials |-> task[t].descriptors]))
  /\ UNCHANGED << users, credentialIndex, now, nextUserId, firstUserId,
                  consumed, verifierLog, swept >>

(***************************************************************************)
(* PasskeyService.verifyAuthentication(username?, response)                *)
(***************************************************************************)
\* username || ''
LookupKey(username) == IF username # NoUsername THEN username ELSE ""

\* The external verifier (verifyAuthenticationResponse) is handed the stored
\* counter and accepts a response only with a greater one.
VerifierAcceptsCounter(storedCounter, newCounter) == newCounter > storedCounter

\* getAndDeleteChallenge(username || ''); without a challenge the call throws.
verifyAuthentication(t, username, response) ==
  /\ Idle(t)
  /\ getAndDeleteChallenge(LookupKey(username))
  /\ LET challenge == getAndDeleteChallengeResult(LookupKey(username))
         frame == [IdleTask EXCEPT !.op = "verifyAuthentication",
                                   !.username = username,
                                   !.response = response]
     IN IF challenge = Null
        THEN /\ End(t, frame, Threw("Challenge not found or expired"))
             /\ UNCHANGED consumed
        ELSE /\ Continue(t, [frame EXCEPT !.pc = "vauth_user",
                                          !.challenge = challenge])
             /\ consumed' = Logged(consumed, challenge.challenge)
  /\ UNCHANGED << users, credentialIndex, now, nextChallenge, nextUserId,
                  firstUserId, verifierLog, swept, replaced >>

\* getUserByCredentialId(response.id); without a user the call throws.
verifyAuthentication_user(t) ==
  /\ task[t].pc = "vauth_user"
  /\ LET user == getUserByCredentialId(task[t].response.id)
     IN IF user = Null
        THEN End(t, task[t], Threw("User not found"))
        ELSE Continue(t, [task[t] EXCEPT !.pc = "vauth_credential",
                                         !.user = Ref(user)])
  /\ UNCHANGED << storeVars, now, nextChallenge, nextUserId, historyVars >>

\* user.credentials.find(...); without the credential the call throws, with
\* it the verifier is called with the stored challenge, key and counter.
verifyAuthentication_credential(t) ==
  /\ task[t].pc = "vauth_credential"
  /\ LET credential ==
           FindCredential(Deref(task[t].user).credentials, task[t].response.id)
     IN IF credential = Null
        THEN /\ End(t, task[t], Threw("Credential not found"))
             /\ UNCHANGED verifierLog
        ELSE /\ Continue(t, [task[t] EXCEPT !.pc = "vauth_verify",
                                            !.credential = credential])
             /\ verifierLog' = Logged(verifierLog, task[t].challenge.challenge)
  /\ UNCHANGED << storeVars, now, nextChallenge, nextUserId, firstUserId,
                  consumed, swept, replaced >>

\* A result that names the username the caller supplied.
AuthenticationResult_Supplied(frame) ==
  [verified |-> TRUE,
   userId |-> Deref(frame.user).userId,
   username |-> frame.username]

AuthenticationResult(frame) ==
  [verified |-> TRUE,
   userId |-> Deref(frame.user).userId,
   username |-> Deref(frame.user).username]

\* A verifyAuthentication that writes the counter the authenticator sent
\* before it looks at the verifier's answer.
verifyAuthentication_verify_CountsFirst(t) ==
  /\ task[t].pc = "vauth_verify"
  /\ updateCredentialCounterError(task[t].credential.id) = ""
  /\ \E newCounter \in 0..MaxCounter :
       /\ newCounter # task[t].credential.counter
       /\ updateCredentialCounter(task[t].credential.id, newCounter)
       /\ \/ End(t, task[t], Threw("Authentication verification failed"))
          \/ /\ VerifierAcceptsCounter(task[t].credential.counter, newCounter)
             /\ End(t, task[t], Returned(AuthenticationResult(task[t])))
  /\ UNCHANGED << challenges, challengesByValue, now, nextChallenge,
                  nextUserId, historyVars >>

\* The verifier answers; on success updateCredentialCounter is called with
\* the new counter and the owner of the credential is returned.
verifyAuthentication_verify(t) ==
  /\ task[t].pc = "vauth_verify"
  /\ \/ /\ End(t, task[t], Threw("Authentication verification failed"))
        /\ UNCHANGED << users, credentialIndex >>
     \/ \E newCounter \in 0..MaxCounter :
          /\ VerifierAcceptsCounter(task[t].credential.counter, newCounter)
          /\ IF updateCredentialCounterError(task[t].credential.id) # ""
             THEN /\ End(t, [task[t] EXCEPT !.newCounter = newCounter],
                       Threw(updateCredentialCounterError(task[t].credential.id)))
                  /\ UNCHANGED << users, credentialIndex >>
             ELSE /\ updateCredentialCounter(task[t].credential.id, newCounter)
                  /\ End(t, [task[t] EXCEPT !.newCounter = newCounter],
                         Returned(AuthenticationResult(task[t])))
  /\ UNCHANGED << challenges, challengesByValue, now, nextChallenge,
                  nextUserId, historyVars >>

(***************************************************************************)
(* MemoryStorage.getAndDeleteChallengeByValue(challengeValue), called on   *)
(* the store by the application: the service never calls it.               *)
(***************************************************************************)
getAndDeleteChallengeByValue_call(t, challengeValue) ==
  /\ Idle(t)
  /\ getAndDeleteChallengeByValue(challengeValue)
  /\ End(t, [IdleTask EXCEPT !.op = "getAndDeleteChallengeByValue",
                             !.response = [challengeValue |-> challengeValue]],
         Returned(getAndDeleteChallengeByValueResult(challengeValue)))
  /\ UNCHANGED << users, credentialIndex, now, nextChallenge, nextUserId,
                  historyVars >>

(***************************************************************************)
(* The credential store, called by the application: saveUser, addCredential *)
(* and updateCredentialCounter of MemoryStorage.  None of them awaits: a    *)
(* call is one step.  `response` of the outcome holds the argument.         *)
(***************************************************************************)
saveUser_call(t, user) ==
  /\ Idle(t)
  /\ saveUser(user)
  /\ task' = [Detach(task, user.username) EXCEPT ![t] = IdleTask]
  /\ returned' = Outcome(t, [IdleTask EXCEPT !.op = "saveUser",
                                             !.username = user.username,
                                             !.response = user],
                         Returned(Null))
  /\ UNCHANGED << challenges, challengesByValue, now, nextChallenge,
                  nextUserId, historyVars >>

addCredential_call(t, username, credential) ==
  /\ Idle(t)
  /\ LET frame == [IdleTask EXCEPT !.op = "addCredential",
                                   !.username = username,
                                   !.response = credential]
     IN IF addCredentialThrows(username)
        THEN /\ End(t, frame, Threw("User not found"))
             /\ UNCHANGED << users, credentialIndex >>
        ELSE /\ addCredential(username, credential)
             /\ End(t, frame, Returned(Null))
  /\ UNCHANGED << challenges, challengesByValue, now, nextChallenge,
                  nextUserId, historyVars >>

updateCredentialCounter_call(t, credentialId, counter) ==
  /\ Idle(t)
  /\ LET frame == [IdleTask EXCEPT !.op = "updateCredentialCounter",
                                   !.response = [id |-> credentialId],
                                   !.newCounter = counter]
     IN IF updateCredentialCounterError(credentialId) # ""
        THEN /\ End(t, frame, Threw(updateCredentialCounterError(credentialId)))
             /\ UNCHANGED << users, credentialIndex >>
        ELSE /\ updateCredentialCounter(credentialId, counter)
             /\ End(t, frame, Returned(Null))
  /\ UNCHANGED << challenges, challengesByValue, now, nextChallenge,
                  nextUserId, historyVars >>

(***************************************************************************)
(* The clock, and the expiry sweep.                                        *)
(***************************************************************************)
Tick ==
  /\ now < MaxTicks * TickMs
  /\ now' = now + TickMs
  /\ returned' = NoReturn
  /\ UNCHANGED << storeVars, nextChallenge, nextUserId, task, historyVars >>

\* An expiry test that never finds a challenge expired.
Expired_Never(challenge) == FALSE

Expired(challenge) == challenge.expiresAt < now

cleanupExpiredChallenges ==
  /\ challenges' =
       [k \in { k \in DOMAIN challenges : ~Expired(challenges[k]) } |->
          challenges[k]]
  /\ challengesByValue' =
       [v \in DOMAIN challengesByValue \
              { challenges[k].challenge :
                  k \in { k \in DOMAIN challenges : Expired(challenges[k]) } } |->
          challengesByValue[v]]
  /\ returned' = NoReturn
  /\ swept' = swept \cup { challenges[k].challenge :
                             k \in { k \in DOMAIN challenges :
                                       challenges[k].expiresAt < now } }
  /\ UNCHANGED << users, credentialIndex, now, nextChallenge, nextUserId,
                  task, firstUserId, consumed, verifierLog, replaced >>

(***************************************************************************)
(* The route handlers (pages/api/passkey/...).  A request is a method and  *)
(* a parsed body: null, or an object whose absent members read undefined   *)
(* ("" for the strings, Null for the credential).  A handler runs up to    *)
(* its `await passkeyService...` with the first segment of that call, and  *)
(* answers in the step in which the call ends.                             *)
(***************************************************************************)
NoHttp ==
  [task |-> "", route |-> "", method |-> "", body |-> Null, status |-> 0,
   json |-> Null]

Answer(t, name, req, status, json) ==
  [task |-> t, route |-> name, method |-> req.method, body |-> req.body,
   status |-> status, json |-> json]

\* A 200 for every call that ends, whether it returned or threw.
HttpOutcome_AlwaysOk(result) ==
  IF result.status = "ok"
  THEN [status |-> 200, json |-> result.value]
  ELSE [status |-> 200, json |-> [error |-> result.error]]

\* res.status(200).json(result) after the call returned; in the catch,
\* res.status(500).json({error: error.message}): every failure thrown by the
\* service or the store is an Error.
HttpOutcome(result) ==
  IF result.status = "ok"
  THEN [status |-> 200, json |-> result.value]
  ELSE [status |-> 500, json |-> [error |-> result.error]]

\* return res.status(...).json({error}) before the service is called.
Reject(t, name, req, status, message) ==
  /\ Idle(t)
  /\ http' = Answer(t, name, req, status, [error |-> message])
  /\ returned' = NoReturn
  /\ UNCHANGED << storeVars, now, nextChallenge, nextUserId, task,
                  historyVars, route >>

\* The TypeError of `const { ... } = req.body` when req.body is null.
DestructureError == "Cannot destructure property of 'req.body' as it is null."

\* After `await passkeyService...` was reached: answer if the call has ended
\* in this step, wait for it otherwise.
Await(t, name, req) ==
  IF returned'.task = t
  THEN /\ http' = Answer(t, name, req, HttpOutcome(returned'.result).status,
                         HttpOutcome(returned'.result).json)
       /\ UNCHANGED route
  ELSE /\ http' = NoHttp
       /\ route' = [route EXCEPT ![t] = [name |-> name, req |-> req]]

NoRoute == [name |-> "", req |-> Null]

\* POST /register/verify
handler_registerVerify(t, req) ==
  IF req.method # "POST"
  THEN Reject(t, "register/verify", req, 405, "Method not allowed")
  ELSE IF req.body = Null
  THEN Reject(t, "register/verify", req, 500, DestructureError)
  ELSE IF req.body.username = "" \/ req.body.credential = Null
  THEN Reject(t, "register/verify", req, 400,
              "Username and credential are required")
  ELSE /\ verifyRegistration(t, req.body.username, req.body.credential)
       /\ Await(t, "register/verify", req)

\* POST /authenticate/verify
handler_authenticateVerify(t, req) ==
  IF req.method # "POST"
  THEN Reject(t, "authenticate/verify", req, 405, "Method not allowed")
  ELSE IF req.body = Null
  THEN Reject(t, "authenticate/verify", req, 500, DestructureError)
  ELSE IF req.body.credential = Null
  THEN Reject(t, "authenticate/verify", req, 400, "Credential is required")
  ELSE /\ verifyAuthentication(t, req.body.username, req.body.credential)
       /\ Await(t, "authenticate/verify", req)

\* POST /register/options
handler_registerOptions(t, req) ==
  IF req.method # "POST"
  THEN Reject(t, "register/options", req, 405, "Method not allowed")
  ELSE IF req.body = Null
  THEN Reject(t, "register/options", req, 500, DestructureError)
  ELSE IF req.body.username = "" \/ req.body.displayName = ""
  THEN Reject(t, "register/options", req, 400,
              "Username and displayName are required")
  ELSE /\ generateRegistrationOptions(t, req.body.username,
                                      req.body.displayName, req.body.userId)
       /\ Await(t, "register/options", req)

\* POST /authenticate/options: the fourth route, which takes an optional
\* username and has no required member.
handler_authenticateOptions(t, req) ==
  IF req.method # "POST"
  THEN Reject(t, "authenticate/options", req, 405, "Method not allowed")
  ELSE IF req.body = Null
  THEN Reject(t, "authenticate/options", req, 500, DestructureError)
  ELSE /\ generateAuthenticationOptions(t, req.body.username)
       /\ Await(t, "authenticate/options", req)

(***************************************************************************)
(* Loading memory-storage.ts: `export const memoryStorage = new            *)
(* MemoryStorage()`.  Before it the store does not exist (its maps are     *)
(* Null); when the constructor throws, the module fails to load and with   *)
(* it storage.ts, which imports it.                                        *)
(***************************************************************************)
NodeEnvs == {"production", "development", "test", ""}    \* "": not set

\* A guard that lets every environment through.
ProductionGuard_Off(env) == FALSE

\* process.env.NODE_ENV === "production"
ProductionGuard(env) == env = "production"

MemoryStorage_constructor ==
  /\ memoryStorage = "unconstructed"
  /\ IF ProductionGuard(nodeEnv)
     THEN /\ memoryStorage' = "threw"
          /\ UNCHANGED storeVars
     ELSE /\ memoryStorage' = "constructed"
          /\ users' = EmptyMap
          /\ credentialIndex' = EmptyMap
          /\ challenges' = EmptyMap
          /\ challengesByValue' = EmptyMap
  /\ returned' = NoReturn
  /\ UNCHANGED << now, nextChallenge, nextUserId, task, historyVars, nodeEnv,
                  service >>

(***************************************************************************)
(* Loading storage.ts and constructing the PasskeyService.  storage.ts     *)
(* imports the memoryStorage singleton whatever the config: the import is  *)
(* evaluated first, and when it throws the module does not load and the    *)
(* class cannot be constructed.  config.storage is "custom" when the       *)
(* application supplies its own PasskeyStorage, "none" when it does not.   *)
(***************************************************************************)
ConfigStorages == {"custom", "none"}

Unloaded(config) == [config |-> config, state |-> "unloaded", storage |-> "none"]

\* config.storage || memoryStorage
StorageInUse(config) == IF config # "none" THEN config ELSE "memory"

PasskeyService_constructor ==
  /\ service.state = "unloaded"
  /\ memoryStorage # "unconstructed"
  /\ service' =
       IF memoryStorage = "threw"
       THEN [service EXCEPT !.state = "failed"]
       ELSE [service EXCEPT !.state = "constructed",
                            !.storage = StorageInUse(service.config)]
  /\ returned' = NoReturn
  /\ UNCHANGED << storeVars, now, nextChallenge, nextUserId, task,
                  historyVars, nodeEnv, memoryStorage >>

(***************************************************************************)
(* The client package (package/src): PasskeyClient (client.ts) and the     *)
(* usePasskey hook (usePasskey.ts).  calls[b] is the frame of the client   *)
(* call b: its position, its arguments, its locals and, in `sent`, what it *)
(* has started so far: the options request, the browser ceremony           *)
(* (startRegistration / startAuthentication), the verify request.  The     *)
(* server and the authenticator are outside: a fetch resolves with any     *)
(* response or rejects, json() and the ceremony resolve or reject.         *)
(***************************************************************************)
BrowserCalls == {"b1", "b2"}

\* The global `window`: not declared (a server render, a worker), declared
\* without PublicKeyCredential, or declared with it.
Windows == {"undeclared", "unsupported", "supported"}

\* What a rejected promise carries: an Error with its message, or a value
\* that is not an Error.
ThrownValues ==
  { [isError |-> TRUE, message |-> "Failed to fetch"],
    [isError |-> TRUE, message |-> ""],
    [isError |-> FALSE, message |-> ""] }

Responses == [ok : BOOLEAN]

\* What optionsResponse.json() resolves with.
OptionsBodies == { [challenge |-> "ch1"] }

\* What the ceremony resolves with.
BrowserCredentials == { [id |-> "credential"] }

\* What verifyResponse.json() resolves with.
VerifyBodies == { [verified |-> TRUE] }

IdleCall ==
  [pc |-> "idle", op |-> "", hook |-> FALSE, username |-> NoUsername,
   displayName |-> "", userId |-> NoUserId, sent |-> <<>>,
   optionsResponse |-> Null, options |-> Null, credential |-> Null,
   verifyResponse |-> Null, result |-> Null]

NoFinish == [call |-> "", outcome |-> "", result |-> Null, frame |-> IdleCall]

Success(data) == [success |-> TRUE, data |-> data]

Failure(message) == [success |-> FALSE, error |-> message]

Unsupported == "Passkeys are not supported in this browser"

OptionsFailed(op) ==
  IF op = "register" THEN "Failed to get registration options"
  ELSE "Failed to get authentication options"

VerifyFailed(op) ==
  IF op = "register" THEN "Failed to verify registration"
  ELSE "Failed to verify authentication"

\* catch (error): error instanceof Error ? error.message : '... failed'
Caught(op, thrown) ==
  Failure(IF thrown.isError THEN thrown.message
          ELSE IF op = "register" THEN "Registration failed"
          ELSE "Authentication failed")

\* !!(window?.PublicKeyCredential): reading an undeclared `window` throws a
\* ReferenceError, which `?.` does not catch.
isWebAuthnSupportedThrows == window = "undeclared"

isWebAuthnSupported == window = "supported"

ReferenceError == [isError |-> TRUE, message |-> "window is not defined"]

\* A response test that takes every response for an OK one.
ResponseOk_Always(response) == TRUE

\* optionsResponse.ok, verifyResponse.ok
ResponseOk(response) == response.ok

serverVars ==
  << storeVars, now, nextChallenge, nextUserId, task, returned, historyVars,
     httpVars, bootVars >>

\* The call b goes on, in `frame`, after its next await.
ClientContinue(b, frame) ==
  /\ calls' = [calls EXCEPT ![b] = frame]
  /\ finished' = NoFinish
  /\ UNCHANGED << isLoading, error >>

\* client.register / client.authenticate returns `result`: to its caller, or
\* to the hook that awaits it.
ClientReturn(b, frame, result) ==
  /\ IF frame.hook
     THEN /\ calls' = [calls EXCEPT ![b] =
                         [frame EXCEPT !.pc = "hook_result", !.result = result]]
          /\ finished' = NoFinish
     ELSE /\ calls' = [calls EXCEPT ![b] = IdleCall]
          /\ finished' = [call |-> b, outcome |-> "resolved",
                          result |-> result, frame |-> frame]
  /\ UNCHANGED << isLoading, error >>

\* Up to the first await of register / authenticate: isSupported(), then the
\* options request.
ClientStart(b, frame) ==
  IF isWebAuthnSupportedThrows
  THEN /\ finished' = [call |-> b, outcome |-> "rejected",
                       result |-> ReferenceError, frame |-> frame]
       /\ UNCHANGED << calls, isLoading, error >>
  ELSE IF ~isWebAuthnSupported
  THEN ClientReturn(b, frame, Failure(Unsupported))
  ELSE ClientContinue(b, [frame EXCEPT !.pc = "options_wait",
                                       !.sent = << "options" >>])

PasskeyClient_register(b, username, displayName, userId) ==
  /\ calls[b].pc = "idle"
  /\ ClientStart(b, [IdleCall EXCEPT !.op = "register", !.username = username,
                                     !.displayName = displayName,
                                     !.userId = userId])
  /\ UNCHANGED << serverVars, window >>

PasskeyClient_authenticate(b, username) ==
  /\ calls[b].pc = "idle"
  /\ ClientStart(b, [IdleCall EXCEPT !.op = "authenticate",
                                     !.username = username])
  /\ UNCHANGED << serverVars, window >>

\* The options request settles.
client_optionsResponse(b) ==
  /\ calls[b].pc = "options_wait"
  /\ \/ \E thrown \in ThrownValues :
          ClientReturn(b, calls[b], Caught(calls[b].op, thrown))
     \/ \E response \in Responses :
          IF ~ResponseOk(response)
          THEN ClientReturn(b, [calls[b] EXCEPT !.optionsResponse = response],
                            Failure(OptionsFailed(calls[b].op)))
          ELSE ClientContinue(b, [calls[b] EXCEPT
                                    !.pc = "options_json",
                                    !.optionsResponse = response])
  /\ UNCHANGED << serverVars, window >>

\* optionsResponse.json() settles; with the options the ceremony starts.
client_optionsJson(b) ==
  /\ calls[b].pc = "options_json"
  /\ \/ \E thrown \in ThrownValues :
          ClientReturn(b, calls[b], Caught(calls[b].op, thrown))
     \/ \E options \in OptionsBodies :
          ClientContinue(b, [calls[b] EXCEPT
                               !.pc = "ceremony",
                               !.options = options,
                               !.sent = Append(@, "ceremony")])
  /\ UNCHANGED << serverVars, window >>

\* The ceremony settles; with the credential the verify request is sent.
client_ceremony(b) ==
  /\ calls[b].pc = "ceremony"
  /\ \/ \E thrown \in ThrownValues :
          ClientReturn(b, calls[b], Caught(calls[b].op, thrown))
     \/ \E credential \in BrowserCredentials :
          ClientContinue(b, [calls[b] EXCEPT
                               !.pc = "verify_wait",
                               !.credential = credential,
                               !.sent = Append(@, "verify")])
  /\ UNCHANGED << serverVars, window >>

\* The verify request settles.
client_verifyResponse(b) ==
  /\ calls[b].pc = "verify_wait"
  /\ \/ \E thrown \in ThrownValues :
          ClientReturn(b, calls[b], Caught(calls[b].op, thrown))
     \/ \E response \in Responses :
          IF ~ResponseOk(response)
          THEN ClientReturn(b, [calls[b] EXCEPT !.verifyResponse = response],
                            Failure(VerifyFailed(calls[b].op)))
          ELSE ClientContinue(b, [calls[b] EXCEPT
                                    !.pc = "verify_json",
                                    !.verifyResponse = response])
  /\ UNCHANGED << serverVars, window >>

\* verifyResponse.json() settles; its body is the data of the result.
client_verifyJson(b) ==
  /\ calls[b].pc = "verify_json"
  /\ \/ \E thrown \in ThrownValues :
          ClientReturn(b, calls[b], Caught(calls[b].op, thrown))
     \/ \E body \in VerifyBodies :
          ClientReturn(b, calls[b], Success(body))
  /\ UNCHANGED << serverVars, window >>

\* usePasskey().register: setIsLoading(true), setError(null), then
\* client.register up to its first await.  The hook itself calls
\* client.isSupported() on every render, so that it returns a `register`
\* only where `window` is declared.
usePasskey_register(b, username, displayName, userId) ==
  /\ calls[b].pc = "idle"
  /\ ~isWebAuthnSupportedThrows
  /\ LET frame == [IdleCall EXCEPT !.op = "register", !.hook = TRUE,
                                   !.username = username,
                                   !.displayName = displayName,
                                   !.userId = userId]
     IN IF ~isWebAuthnSupported
        THEN calls' = [calls EXCEPT ![b] =
                         [frame EXCEPT !.pc = "hook_result",
                                       !.result = Failure(Unsupported)]]
        ELSE calls' = [calls EXCEPT ![b] =
                         [frame EXCEPT !.pc = "options_wait",
                                       !.sent = << "options" >>]]
  /\ isLoading' = TRUE
  /\ error' = Null
  /\ finished' = NoFinish
  /\ UNCHANGED << serverVars, window >>

\* usePasskey().authenticate
usePasskey_authenticate(b, username) ==
  /\ calls[b].pc = "idle"
  /\ ~isWebAuthnSupportedThrows
  /\ LET frame == [IdleCall EXCEPT !.op = "authenticate", !.hook = TRUE,
                                   !.username = username]
     IN IF ~isWebAuthnSupported
        THEN calls' = [calls EXCEPT ![b] =
                         [frame EXCEPT !.pc = "hook_result",
                                       !.result = Failure(Unsupported)]]
        ELSE calls' = [calls EXCEPT ![b] =
                         [frame EXCEPT !.pc = "options_wait",
                                       !.sent = << "options" >>]]
  /\ isLoading' = TRUE
  /\ error' = Null
  /\ finished' = NoFinish
  /\ UNCHANGED << serverVars, window >>

\* A hook that leaves isLoading as it is when the call ends.
usePasskey_result_StaysLoading(b) ==
  /\ calls[b].pc = "hook_result"
  /\ error' = IF ~calls[b].result.success /\ calls[b].result.error # ""
              THEN [message |-> calls[b].result.error] ELSE error
  /\ UNCHANGED isLoading
  /\ calls' = [calls EXCEPT ![b] = IdleCall]
  /\ finished' = [call |-> b, outcome |-> "resolved",
                  result |-> calls[b].result, frame |-> calls[b]]
  /\ UNCHANGED << serverVars, window >>

\* The hook after `await client...`: setError(result.error) for a failure
\* with a (non-empty) error, setIsLoading(false), return result.
usePasskey_result(b) ==
  /\ calls[b].pc = "hook_result"
  /\ error' = IF ~calls[b].result.success /\ calls[b].result.error # ""
              THEN [message |-> calls[b].result.error] ELSE error
  /\ isLoading' = FALSE
  /\ calls' = [calls EXCEPT ![b] = IdleCall]
  /\ finished' = [call |-> b, outcome |-> "resolved",
                  result |-> calls[b].result, frame |-> calls[b]]
  /\ UNCHANGED << serverVars, window >>

\* usePasskey().clearError: setError(null)
clearError ==
  /\ error' = Null
  /\ finished' = NoFinish
  /\ UNCHANGED << calls, isLoading, serverVars, window >>

\* A client call resumes after an await.
ClientResume(b) ==
  \/ client_optionsResponse(b)
  \/ client_optionsJson(b)
  \/ client_ceremony(b)
  \/ client_verifyResponse(b)
  \/ client_verifyJson(b)

(***************************************************************************)
(* Specifications.                                                         *)
(***************************************************************************)
\* No request has arrived and no client call has been made.
NothingStarted ==
  /\ now = 0
  /\ nextChallenge = 0
  /\ nextUserId = 0
  /\ task = [t \in Tasks |-> IdleTask]
  /\ returned = NoReturn
  /\ firstUserId = EmptyMap
  /\ consumed = EmptyMap
  /\ verifierLog = EmptyMap
  /\ swept = {}
  /\ replaced = {}
  /\ http = NoHttp
  /\ route = [t \in Tasks |-> NoRoute]
  /\ calls = [b \in BrowserCalls |-> IdleCall]
  /\ finished = NoFinish
  /\ isLoading = FALSE
  /\ error = Null

\* The server after memory-storage.ts has loaded, outside production.
Init ==
  /\ users = EmptyMap
  /\ credentialIndex = EmptyMap
  /\ challenges = EmptyMap
  /\ challengesByValue = EmptyMap
  /\ nodeEnv = "development"
  /\ memoryStorage = "constructed"
  /\ service = [config |-> "none", state |-> "constructed", storage |-> "memory"]
  /\ window = "undeclared"
  /\ NothingStarted

\* The server before memory-storage.ts has loaded, in any environment.
BootInit ==
  /\ users = Null
  /\ credentialIndex = Null
  /\ challenges = Null
  /\ challengesByValue = Null
  /\ nodeEnv \in NodeEnvs
  /\ memoryStorage = "unconstructed"
  /\ service \in { Unloaded(config) : config \in ConfigStorages }
  /\ window = "undeclared"
  /\ NothingStarted

\* Wherever the client package is loaded.
ClientInit ==
  /\ users = EmptyMap
  /\ credentialIndex = EmptyMap
  /\ challenges = EmptyMap
  /\ challengesByValue = EmptyMap
  /\ nodeEnv = "development"
  /\ memoryStorage = "constructed"
  /\ service = [config |-> "none", state |-> "constructed", storage |-> "memory"]
  /\ window \in Windows
  /\ NothingStarted

\* Wherever a component that uses the hook has rendered.
HookInit ==
  /\ ClientInit
  /\ ~isWebAuthnSupportedThrows

RegistrationResponses == [transports : TransportHints]

AuthenticationResponses == [id : CredentialIds]

\* A request arrives: one of the four operations is called, with a username
\* among `usernames` (for authentication: among `authUsernames`) and a userId
\* among `userIds`; at most `budget` challenges are ever issued.
Call(t, usernames, authUsernames, userIds, budget) ==
  \/ \E username \in usernames, displayName \in DisplayNames,
        userId \in userIds :
       /\ CanIssue(budget)
       /\ generateRegistrationOptions(t, username, displayName, userId)
  \/ \E username \in usernames, response \in RegistrationResponses :
       verifyRegistration(t, username, response)
  \/ \E username \in authUsernames :
       /\ CanIssue(budget)
       /\ generateAuthenticationOptions(t, username)
  \/ \E username \in authUsernames, response \in AuthenticationResponses :
       verifyAuthentication(t, username, response)

\* A call in flight resumes after an await.
Resume(t) ==
  \/ generateRegistrationOptions_exclude(t)
  \/ generateRegistrationOptions_save(t)
  \/ verifyRegistration_verify(t)
  \/ verifyRegistration_store(t)
  \/ generateAuthenticationOptions_allow(t)
  \/ generateAuthenticationOptions_save(t)
  \/ verifyAuthentication_user(t)
  \/ verifyAuthentication_credential(t)
  \/ verifyAuthentication_verify(t)

\* Requests served one at a time.
Quiet == \A t \in Tasks : Idle(t)

\* What a step of the service, called directly, leaves alone.
Direct == UNCHANGED << httpVars, bootVars, browserVars >>

SerialNext ==
  \/ /\ Quiet
     /\ Call("t1", Usernames, Usernames \cup {NoUsername}, {NoUserId},
             MaxChallenges)
     /\ Direct
  \/ Resume("t1") /\ Direct

Spec == Init /\ [][SerialNext]_vars

\* Requests for one username served concurrently: a call may start while
\* another is in flight.
Next ==
  \/ \E t \in Tasks :
       /\ Call(t, {"a@x.com"}, {"a@x.com"}, {NoUserId}, MaxConcurrentChallenges)
       /\ Direct
  \/ \E t \in Tasks : Resume(t) /\ Direct

SpecConcurrent == Init /\ [][Next]_vars

\* The same, in runs long enough for a registration and two authentications.
RaceNext ==
  \/ \E t \in Tasks :
       /\ Call(t, {"a@x.com"}, {"a@x.com"}, {NoUserId}, MaxRaceChallenges)
       /\ Direct
  \/ \E t \in Tasks : Resume(t) /\ Direct

SpecRace == Init /\ [][RaceNext]_vars

\* Requests served one at a time, with the clock and the expiry sweep.
TimedNext ==
  \/ /\ Quiet
     /\ Call("t1", {"a@x.com"}, {"a@x.com", NoUsername}, {NoUserId},
             MaxTimedChallenges)
     /\ Direct
  \/ Resume("t1") /\ Direct
  \/ Tick /\ Direct
  \/ cleanupExpiredChallenges /\ Direct

SpecTimed == Init /\ [][TimedNext]_vars

\* The same, forever: the clock goes on and a call in flight resumes after
\* each await.  Nothing schedules a request, and nothing in the repository
\* schedules cleanupExpiredChallenges: the PasskeyService and MemoryStorage
\* constructors start no timer.
SpecLive ==
  /\ Init
  /\ [][TimedNext]_vars
  /\ WF_vars(Tick /\ Direct)
  /\ WF_vars(Resume("t1") /\ Direct)

\* Requests for one account served one at a time, the caller supplying its
\* own userId or none, in runs long enough for a registration and two
\* authentications.
AccountNext ==
  \/ /\ Quiet
     /\ Call("t1", {"a@x.com"}, {"a@x.com"}, SuppliedUserIds \cup {NoUserId},
             MaxAccountChallenges)
     /\ Direct
  \/ Resume("t1") /\ Direct

SpecAccount == Init /\ [][AccountNext]_vars

\* Requests served one at a time, and between them the application looking
\* challenges up by value on the store.
StoreNext ==
  \/ /\ Quiet
     /\ Call("t1", {"a@x.com"}, {"a@x.com", NoUsername}, {NoUserId},
             MaxStoreChallenges)
     /\ Direct
  \/ Resume("t1") /\ Direct
  \/ \E n \in 1..MaxStoreChallenges :
       /\ getAndDeleteChallengeByValue_call("t1", ChallengeValue(n))
       /\ Direct

SpecStore == Init /\ [][StoreNext]_vars

\* The credentials and identities an application hands to the store.
StoredCredentials ==
  [id : CredentialIds,
   publicKey : { Base64UrlEncode(key) : key \in RawPublicKeys },
   counter : InitialCounters,
   transports : TransportHints,
   createdAt : {0}]

CredentialLists ==
  UNION { [1..n -> StoredCredentials] : n \in 0..MaxStoredCredentials }

Identities ==
  [userId : SuppliedUserIds,
   username : Usernames,
   displayName : DisplayNames,
   credentials : CredentialLists,
   createdAt : {0},
   updatedAt : {0}]

\* The application calls the credential store, one call at a time.
DirectNext ==
  \/ \E user \in Identities : saveUser_call("t1", user) /\ Direct
  \/ \E username \in Usernames, credential \in StoredCredentials :
       /\ MapHas(users, username)
          => Len(users[username].credentials) < MaxStoredCredentials
       /\ addCredential_call("t1", username, credential)
       /\ Direct
  \/ \E credentialId \in CredentialIds :
       /\ updateCredentialCounter_call("t1", credentialId, MaxCounter)
       /\ Direct

SpecDirect == Init /\ [][DirectNext]_vars

\* The awaited call of request t goes on; its handler answers when it ends.
handler_resume(t) ==
  /\ route[t] # NoRoute
  /\ Resume(t)
  /\ IF returned'.task = t
     THEN /\ http' = Answer(t, route[t].name, route[t].req,
                            HttpOutcome(returned'.result).status,
                            HttpOutcome(returned'.result).json)
          /\ route' = [route EXCEPT ![t] = NoRoute]
     ELSE /\ http' = NoHttp
          /\ UNCHANGED route

\* Requests arriving over HTTP, served one at a time.
HttpMethods == {"POST", "GET"}

\* Parsed bodies: null, or an object with or without a username, with a
\* displayName among `displayNames` or without one, and with a credential
\* among `credentials` or without one.
HttpBodies(displayNames, credentials) ==
  {Null} \cup [username : {"a@x.com", NoUsername},
               displayName : displayNames \cup {""},
               userId : {NoUserId},
               credential : {Null} \cup credentials]

Requests(displayNames, credentials) ==
  [method : HttpMethods, body : HttpBodies(displayNames, credentials)]

HttpNext ==
  \/ \E req \in Requests(DisplayNames, {}) :
       /\ Quiet
       /\ CanIssue(MaxHttpChallenges)
       /\ handler_registerOptions("t1", req)
       /\ UNCHANGED << bootVars, browserVars >>
  \/ \E req \in Requests({}, RegistrationResponses) :
       /\ Quiet
       /\ handler_registerVerify("t1", req)
       /\ UNCHANGED << bootVars, browserVars >>
  \/ \E req \in Requests({}, {}) :
       /\ Quiet
       /\ CanIssue(MaxHttpChallenges)
       /\ handler_authenticateOptions("t1", req)
       /\ UNCHANGED << bootVars, browserVars >>
  \/ \E req \in Requests({}, AuthenticationResponses) :
       /\ Quiet
       /\ handler_authenticateVerify("t1", req)
       /\ UNCHANGED << bootVars, browserVars >>
  \/ handler_resume("t1") /\ UNCHANGED << bootVars, browserVars >>

SpecHttp == Init /\ [][HttpNext]_vars

\* The server from the loading of memory-storage.ts on.
BootNext ==
  \/ /\ MemoryStorage_constructor
     /\ UNCHANGED << httpVars, browserVars >>
  \/ /\ PasskeyService_constructor
     /\ UNCHANGED << httpVars, browserVars >>
  \/ /\ service.state = "constructed"
     /\ service.storage = "memory"
     /\ Quiet
     /\ Call("t1", {"a@x.com"}, {"a@x.com"}, {NoUserId}, MaxBootChallenges)
     /\ Direct
  \/ Resume("t1") /\ Direct

SpecBoot == BootInit /\ [][BootNext]_vars

\* Calls of PasskeyClient, which may overlap.
ClientNext ==
  \/ \E b \in BrowserCalls, username \in {"a@x.com"},
        displayName \in DisplayNames, userId \in {NoUserId} :
       PasskeyClient_register(b, username, displayName, userId)
  \/ \E b \in BrowserCalls, username \in {"a@x.com", NoUsername} :
       PasskeyClient_authenticate(b, username)
  \/ \E b \in BrowserCalls : ClientResume(b)

SpecClient == ClientInit /\ [][ClientNext]_vars

\* Calls through usePasskey, one at a time.
NoCall == \A b \in BrowserCalls : calls[b].pc = "idle"

HookNext ==
  \/ \E username \in {"a@x.com"}, displayName \in DisplayNames,
        userId \in {NoUserId} :
       NoCall /\ usePasskey_register("b1", username, displayName, userId)
  \/ \E username \in {"a@x.com", NoUsername} :
       NoCall /\ usePasskey_authenticate("b1", username)
  \/ ClientResume("b1")
  \/ usePasskey_result("b1")
  \/ clearError

SpecHook == HookInit /\ [][HookNext]_vars

\* Calls through usePasskey that may overlap: the hook does not keep a caller
\* from starting register or authenticate while an earlier call is awaited.
HookOverlapNext ==
  \/ \E b \in BrowserCalls, username \in {"a@x.com"},
        displayName \in DisplayNames, userId \in {NoUserId} :
       usePasskey_register(b, username, displayName, userId)
  \/ \E b \in BrowserCalls, username \in {"a@x.com", NoUsername} :
       usePasskey_authenticate(b, username)
  \/ \E b \in BrowserCalls : ClientResume(b)
  \/ \E b \in BrowserCalls : usePasskey_result(b)
  \/ clearError

SpecHookOverlap == HookInit /\ [][HookOverlapNext]_vars

(***************************************************************************)
(* Properties.                                                             *)
(***************************************************************************)
VerifyOps == {"verifyRegistration", "verifyAuthentication"}

GenerateOps == {"generateRegistrationOptions", "generateAuthenticationOptions"}

ChallengeNotFound == Threw("Challenge not found or expired")

\* Request t begins a call in this step.
Begins(t) == Idle(t) /\ (task'[t].pc # "idle" \/ returned'.task = t)

\* The call request t is in after this step: its frame while it goes on, its
\* outcome once it has ended.
CallOf(t) == IF task'[t].pc # "idle" THEN task'[t] ELSE returned'

\* A discoverable (usernameless) challenge is pending.
DiscoverablePending == \E k \in DOMAIN challenges : challenges[k].username = ""

\* C1: discoverable round trip.  A verifyAuthentication call without a
\* username, for a registered credential id, made while a challenge issued
\* without a username is pending, finds that challenge: it ends either with
\* {verified: true, userId, username} of the identity that owns the
\* credential, or on the verifier's refusal -- never with "Challenge not
\* found or expired" while such a challenge is still pending.
C1_DiscoverableRoundTrip ==
  ( /\ returned.op = "verifyAuthentication"
    /\ returned.username = NoUsername
    /\ MapHas(credentialIndex, returned.response.id) )
  => \/ /\ returned.result.status = "ok"
        /\ returned.result.value =
             [verified |-> TRUE,
              userId |-> users[credentialIndex[returned.response.id]].userId,
              username |-> credentialIndex[returned.response.id]]
     \/ returned.result = Threw("Authentication verification failed")
     \/ /\ returned.result = ChallengeNotFound
        /\ ~DiscoverablePending

\* C2: single use.  A verification call whose key holds a challenge obtains
\* that challenge, which no call obtained before, and leaves the key empty;
\* a verification call whose key holds none fails with "Challenge not found
\* or expired"; and an empty key is filled again only by an option-generation
\* call issuing a new challenge.
C2_SingleUse ==
  [][ /\ \A t \in Tasks :
           (Begins(t) /\ CallOf(t).op \in VerifyOps) =>
             IF MapHas(challenges, LookupKey(CallOf(t).username))
             THEN /\ task'[t].pc # "idle"
                  /\ task'[t].challenge = challenges[LookupKey(CallOf(t).username)]
                  /\ Count(consumed, task'[t].challenge.challenge) = 0
                  /\ ~MapHas(challenges', LookupKey(CallOf(t).username))
             ELSE /\ task'[t].pc = "idle"
                  /\ returned'.result = ChallengeNotFound
      /\ \A k \in DOMAIN challenges' \ DOMAIN challenges :
           /\ returned'.op \in GenerateOps
           /\ Count(consumed, challenges'[k].challenge) = 0
    ]_vars

\* C2 witness: one challenge was ever issued, a verifyRegistration consumed
\* it and registered the username, and a second verifyRegistration for that
\* username has just failed with "Challenge not found or expired".
C2_Witness ==
  /\ nextChallenge = 1
  /\ Count(consumed, ChallengeValue(1)) = 1
  /\ returned.op = "verifyRegistration"
  /\ MapHas(users, returned.username)
  /\ returned.result = ChallengeNotFound

\* C3: concurrent verifications.  No challenge is ever obtained by two calls
\* nor handed to the verifier twice, two calls in flight never hold the same
\* challenge, a challenge a call holds is no longer stored, and a
\* verification call that begins when its key holds no challenge (the other
\* call has taken it) fails with "Challenge not found or expired".
C3_ExactlyOneObtains ==
  /\ [](/\ \A v \in DOMAIN consumed : consumed[v] <= 1
        /\ \A v \in DOMAIN verifierLog : verifierLog[v] <= 1
        /\ \A t1, t2 \in Tasks :
             (t1 # t2 /\ task[t1].challenge # Null /\ task[t2].challenge # Null)
             => task[t1].challenge.challenge # task[t2].challenge.challenge
        /\ \A t \in Tasks : \A k \in DOMAIN challenges :
             task[t].challenge # Null
             => challenges[k].challenge # task[t].challenge.challenge)
  /\ [][\A t \in Tasks :
          ( /\ Begins(t)
            /\ CallOf(t).op \in VerifyOps
            /\ ~MapHas(challenges, LookupKey(CallOf(t).username)) )
          => returned' = Outcome(t, CallOf(t), ChallengeNotFound)]_vars

\* C3 witness: while one verification is in flight with the challenge of a
\* key, a second verification under that key has failed with "Challenge not
\* found or expired".
C3_Witness ==
  \E t \in Tasks :
    /\ task[t].op \in VerifyOps
    /\ task[t].challenge # Null
    /\ returned.task # t
    /\ returned.op = task[t].op
    /\ returned.username = task[t].username
    /\ returned.result = ChallengeNotFound
    /\ ~MapHas(challenges, LookupKey(returned.username))

\* C4: add a second passkey.  Every successful verifyRegistration returns
\* the userId that the first registration of its username returned.
C4_SecondPasskeySameUserId ==
  (returned.op = "verifyRegistration" /\ returned.result.status = "ok")
  => returned.result.value.userId = firstUserId[returned.username]

\* C5: authentication with a username.  A successful verifyAuthentication
\* called with a username returns that username, and the userId stored
\* under it.
C5_AuthenticatesSuppliedUsername ==
  ( /\ returned.op = "verifyAuthentication"
    /\ returned.username # NoUsername
    /\ returned.result.status = "ok" )
  => /\ returned.result.value.username = returned.username
     /\ MapHas(users, returned.username)
     /\ returned.result.value.userId = users[returned.username].userId

\* C6: the stored signature counter never decreases.  A successful
\* verifyAuthentication leaves no credential with a lower counter than it
\* had before.
C6_CounterNeverDecreases ==
  [][(returned'.op = "verifyAuthentication" /\ returned'.result.status = "ok")
     => \A u \in DOMAIN users : \A i \in DOMAIN users[u].credentials :
          users'[u].credentials[i].counter >= users[u].credentials[i].counter
    ]_vars

\* C7: userId immutability.  The userId stored for a username never changes.
C7_UserIdImmutable ==
  [][\A u \in DOMAIN users : users'[u].userId = users[u].userId]_vars

\* C8: credential ids are unique in the store, across identities and within
\* one identity's list.
C8_CredentialIdsUnique ==
  \A u1, u2 \in DOMAIN users :
    \A i \in DOMAIN users[u1].credentials, j \in DOMAIN users[u2].credentials :
      (u1 # u2 \/ i # j)
      => users[u1].credentials[i].id # users[u2].credentials[j].id

\* C9: challenge keying.  Every stored challenge is filed under its
\* username, the empty string when it has none, so that at most one
\* discoverable challenge is pending and it is the one filed under ''.
C9_ChallengeKeying ==
  /\ \A k \in DOMAIN challenges : k = challenges[k].username
  /\ Cardinality({ k \in DOMAIN challenges : challenges[k].username = "" }) <= 1

\* C10: expiry.  A verification call never accepts a challenge whose
\* expiresAt has passed.
C10_ExpiredChallengeRejected ==
  [][\A t \in Tasks :
       (Begins(t) /\ task'[t].pc # "idle" /\ task'[t].op \in VerifyOps)
       => ~(task'[t].challenge.expiresAt < now)]_vars

\* C11: expiry sweep.  Once cleanupExpiredChallenges has run at a time later
\* than the expiresAt of a stored challenge, that challenge is stored under no
\* key and no verification call ever obtains it: a verification call under
\* its key fails with "Challenge not found or expired" unless the key holds a
\* challenge issued since.
C11_SweptChallengeGone ==
  /\ [](\A k \in DOMAIN challenges : challenges[k].challenge \notin swept)
  /\ [][\A t \in Tasks :
          (Begins(t) /\ CallOf(t).op \in VerifyOps) =>
            IF task'[t].pc # "idle"
            THEN /\ task'[t].challenge.challenge \notin swept
                 /\ task'[t].challenge = challenges[LookupKey(CallOf(t).username)]
            ELSE returned'.result = ChallengeNotFound]_vars

\* C11 witness: the only challenge ever issued was swept, unused, and a
\* verification call under its key has just failed with "Challenge not found
\* or expired".
C11_Witness ==
  /\ nextChallenge = 1
  /\ swept = {ChallengeValue(1)}
  /\ Count(consumed, ChallengeValue(1)) = 0
  /\ returned.op \in VerifyOps
  /\ returned.username = "a@x.com"
  /\ returned.result = ChallengeNotFound

\* C12: first registration.  generateRegistrationOptions returns options
\* whose user.id and challenge are those of the challenge it stores under the
\* username; and a verifyRegistration that succeeds for a username with no
\* identity returns {verified: true, userId, credentialId} with the userId
\* recorded on its challenge and the credential id the verifier extracted,
\* stores a new identity with that userId and that single credential, and
\* leaves no challenge under the username.
C12_FirstRegistration ==
  [][\A t \in Tasks :
       /\ (task[t].pc = "greg_save" /\ returned'.task = t) =>
            /\ MapHas(challenges', task[t].username)
            /\ challenges'[task[t].username].challenge =
                 returned'.result.value.challenge
            /\ challenges'[task[t].username].userId =
                 returned'.result.value.user.id
       /\ ( /\ task[t].pc = "vreg_store"
            /\ returned'.task = t
            /\ returned'.result.status = "ok"
            /\ ~MapHas(users, task[t].username) ) =>
            /\ returned'.result.value =
                 [verified |-> TRUE,
                  userId |-> task[t].challenge.userId,
                  credentialId |-> task[t].credential.id]
            /\ DOMAIN users' = DOMAIN users \cup {task[t].username}
            /\ users'[task[t].username].userId = task[t].challenge.userId
            /\ Len(users'[task[t].username].credentials) = 1
            /\ users'[task[t].username].credentials[1].id = task[t].credential.id
            /\ credentialIndex'[task[t].credential.id] = task[t].username
            /\ ~MapHas(challenges', task[t].username)
    ]_vars

\* C12 witness: a verifyRegistration has just returned for a username whose
\* identity holds a single credential, the one it returned, under the userId
\* it returned, the only user id ever generated.
C12_Witness ==
  /\ returned.op = "verifyRegistration"
  /\ returned.result.status = "ok"
  /\ nextUserId = 1
  /\ MapHas(users, returned.username)
  /\ users[returned.username].userId = returned.result.value.userId
  /\ Len(users[returned.username].credentials) = 1
  /\ users[returned.username].credentials[1].id = returned.result.value.credentialId

\* The failures of a verification call that has obtained its challenge.
TerminalErrors ==
  {"Registration verification failed", "Authentication verification failed",
   "User not found", "Credential not found"}

\* C13: a failed verification is terminal for its challenge.  When a
\* verification call fails after it obtained its challenge (verification
\* failed, user not found, credential not found), that challenge is stored
\* nowhere and its key is empty; and every later verification call either
\* fails with "Challenge not found or expired" or obtains a challenge that no
\* call obtained before.
C13_FailedVerificationTerminal ==
  [][\A t \in Tasks :
       /\ ( /\ task[t].op \in VerifyOps
            /\ returned'.task = t
            /\ returned'.result.error \in TerminalErrors ) =>
            /\ Count(consumed, task[t].challenge.challenge) = 1
            /\ \A k \in DOMAIN challenges' :
                 challenges'[k].challenge # task[t].challenge.challenge
            /\ ~MapHas(challengesByValue', task[t].challenge.challenge)
            /\ ~MapHas(challenges', LookupKey(task[t].username))
       /\ (Begins(t) /\ CallOf(t).op \in VerifyOps) =>
            IF task'[t].pc = "idle"
            THEN returned'.result = ChallengeNotFound
            ELSE Count(consumed, task'[t].challenge.challenge) = 0
    ]_vars

\* C13 witness: the only challenge ever issued was obtained by a verification
\* call that stored nothing, and a verifyRegistration under the same key has
\* just failed with "Challenge not found or expired".
C13_Witness ==
  /\ nextChallenge = 1
  /\ Count(consumed, ChallengeValue(1)) = 1
  /\ users = EmptyMap
  /\ returned.op = "verifyRegistration"
  /\ returned.result = ChallengeNotFound

\* C14: no partial credential state on failure.  The step in which a
\* verification call fails leaves users and the credential index as they
\* were, and every step that changes them is the last step of a
\* verification call that returns {verified: true, ...}, taken after the
\* verifier was handed the call's challenge.
C14_NoPartialState ==
  [][/\ (returned'.op \in VerifyOps /\ returned'.result.status = "error")
        => UNCHANGED << users, credentialIndex >>
     /\ (<< users, credentialIndex >>' # << users, credentialIndex >>)
        => \E t \in Tasks :
             /\ returned'.task = t
             /\ returned'.op \in VerifyOps
             /\ returned'.result.status = "ok"
             /\ task[t].pc \in {"vreg_store", "vauth_verify"}
             /\ Count(verifierLog, task[t].challenge.challenge) = 1
    ]_vars

\* C14 witness: a verifyAuthentication for a registered credential has just
\* failed on the verifier's refusal, and the credential still has the
\* counter it was registered with.
C14_Witness ==
  /\ returned.op = "verifyAuthentication"
  /\ returned.result = Threw("Authentication verification failed")
  /\ MapHas(credentialIndex, returned.response.id)
  /\ \A u \in DOMAIN users : \A i \in DOMAIN users[u].credentials :
       users[u].credentials[i].counter = 0

\* A required member of the body is missing: username or credential for
\* register/verify, credential for authenticate/verify, username or
\* displayName for register/options; a null body has no member at all.
RequiredMissing(name, body) ==
  IF name = "register/verify"
    THEN body = Null \/ body.username = "" \/ body.credential = Null
  ELSE IF name = "authenticate/verify"
    THEN body = Null \/ body.credential = Null
  ELSE IF name = "register/options"
    THEN body = Null \/ body.username = "" \/ body.displayName = ""
  ELSE FALSE

\* C15: HTTP pre-checks.  A request that is not a POST is answered 405 and a
\* POST with a required member missing is answered 400, and in both cases no
\* PasskeyService operation runs: no call begins or ends, no challenge is
\* stored or consumed and the credential store is unchanged.
C15_PreChecks ==
  [][( /\ http'.task # ""
       /\ (http'.method # "POST" \/ RequiredMissing(http'.route, http'.body)) )
     => /\ http'.status = IF http'.method # "POST" THEN 405 ELSE 400
        /\ returned' = NoReturn
        /\ UNCHANGED << storeVars, task, nextChallenge, nextUserId, consumed,
                        verifierLog >>
    ]_vars

\* The PasskeyService operation behind each route.
RouteOperation(name) ==
  IF name = "register/options" THEN "generateRegistrationOptions"
  ELSE IF name = "register/verify" THEN "verifyRegistration"
  ELSE IF name = "authenticate/options" THEN "generateAuthenticationOptions"
  ELSE "verifyAuthentication"

\* C16: HTTP outcome split.  A POST with a body that has every required
\* member is answered in the step in which its PasskeyService call ends, with
\* 200 and the call's result when the call returns and with 500 and
\* {error: <message>} when it throws, whatever the failure; and every call a
\* handler awaits is answered when it ends.
C16_OutcomeSplit ==
  [][/\ ( /\ http'.task # ""
          /\ http'.method = "POST"
          /\ http'.body # Null
          /\ ~RequiredMissing(http'.route, http'.body) )
        => /\ returned'.task = http'.task
           /\ returned'.op = RouteOperation(http'.route)
           /\ returned'.username = http'.body.username
           /\ IF returned'.result.status = "ok"
              THEN /\ http'.status = 200
                   /\ http'.json = returned'.result.value
              ELSE /\ http'.status = 500
                   /\ http'.json = [error |-> returned'.result.error]
     /\ returned'.task # "" => http'.task = returned'.task
    ]_vars

\* C16 witness: a POST to authenticate/verify for a registered credential
\* has just been answered 500 with the verifier's refusal as the error.
C16_Witness ==
  /\ http.route = "authenticate/verify"
  /\ http.status = 500
  /\ http.json = [error |-> "Authentication verification failed"]
  /\ MapHas(credentialIndex, http.body.credential.id)

\* C17: production guard.  With NODE_ENV "production" the store is never
\* constructed: its maps never exist and no operation ever runs; the
\* constructor throws there, and in every other environment it succeeds and
\* leaves users, the credential index and both challenge maps empty.
C17_ProductionGuard ==
  /\ [](nodeEnv = "production" =>
          /\ memoryStorage # "constructed"
          /\ users = Null
          /\ credentialIndex = Null
          /\ challenges = Null
          /\ challengesByValue = Null
          /\ nextChallenge = 0
          /\ Quiet)
  /\ [][memoryStorage # memoryStorage' =>
          /\ memoryStorage = "unconstructed"
          /\ IF nodeEnv = "production"
             THEN memoryStorage' = "threw"
             ELSE /\ memoryStorage' = "constructed"
                  /\ users' = EmptyMap
                  /\ credentialIndex' = EmptyMap
                  /\ challenges' = EmptyMap
                  /\ challengesByValue' = EmptyMap]_vars

\* C17 witness: in production the constructor has thrown.
C17_Witness ==
  /\ nodeEnv = "production"
  /\ memoryStorage = "threw"

\* The steps of a client call, in order.
ClientSteps == << "options", "ceremony", "verify" >>

IsPrefix(s, t) == Len(s) <= Len(t) /\ \A i \in 1..Len(s) : s[i] = t[i]

\* What C18 says of one client call, given its frame.
OrderedCall(frame) ==
  /\ IsPrefix(frame.sent, ClientSteps)
  /\ Len(frame.sent) >= 2 =>
       /\ frame.optionsResponse # Null
       /\ frame.optionsResponse.ok
       /\ frame.options # Null
  /\ Len(frame.sent) = 3 => frame.credential # Null
  /\ window # "supported" => frame.sent = <<>>

\* C18: client request ordering.  In every call of PasskeyClient.register or
\* PasskeyClient.authenticate, in flight or just ended, what was started is a
\* prefix of: options request, browser ceremony, verify request (so each
\* request is sent at most once); the ceremony and the verify request come
\* only after the options request returned OK, the verify request only after
\* the ceremony produced a credential; and nothing is sent where passkeys are
\* not supported.
C18_RequestOrdering ==
  /\ \A b \in BrowserCalls : OrderedCall(calls[b])
  /\ OrderedCall(finished.frame)

\* C18 witness: a call has sent its verify request, after its options
\* request and the ceremony.
C18_Witness ==
  \E b \in BrowserCalls :
    /\ calls[b].pc = "verify_wait"
    /\ calls[b].sent = ClientSteps

\* C19: PasskeyClient.register and PasskeyClient.authenticate never throw.
\* Every call resolves with a result; where passkeys are unsupported the
\* result is {success: false, error: 'Passkeys are not supported in this
\* browser'}; and a result {success: true, data} comes only after both the
\* options request and the verify request returned OK, with the verify
\* response's body as data.
C19_NeverThrows ==
  finished.call # "" =>
    /\ finished.outcome = "resolved"
    /\ ~isWebAuthnSupported => finished.result = Failure(Unsupported)
    /\ finished.result.success =>
         /\ finished.frame.optionsResponse # Null
         /\ finished.frame.optionsResponse.ok
         /\ finished.frame.verifyResponse # Null
         /\ finished.frame.verifyResponse.ok
         /\ finished.result.data \in VerifyBodies

\* C20: usePasskey state for one call.  isLoading is true exactly while a
\* call made through the hook is in flight; the call sets error to null when
\* it starts; when it ends, error is the result's error if the result is a
\* failure carrying a (non-empty) error message and null otherwise; and
\* clearError sets error to null and changes nothing else.
C20_HookState ==
  /\ [](isLoading <=> ~NoCall)
  /\ [][/\ (NoCall /\ ~NoCall') => (isLoading' /\ error' = Null)
        /\ \A b \in BrowserCalls :
             (calls[b].pc = "hook_result" /\ calls'[b].pc = "idle") =>
               /\ ~isLoading'
               /\ finished'.result = calls[b].result
               /\ error' = IF ~calls[b].result.success
                              /\ calls[b].result.error # ""
                           THEN [message |-> calls[b].result.error]
                           ELSE Null
        /\ clearError => (error' = Null /\ UNCHANGED << calls, isLoading >>)
       ]_vars

\* C20 witness: a call through the hook has just ended in a failure with a
\* message, which is now the hook's error, and isLoading is false again.
C20_Witness ==
  /\ finished.call = "b1"
  /\ finished.frame.hook
  /\ ~finished.result.success
  /\ Len(finished.frame.sent) = 3
  /\ error = [message |-> finished.result.error]
  /\ ~isLoading

(***************************************************************************)
(* Identities and credentials.                                             *)
(***************************************************************************)
StoredUserIds == { users[u].userId : u \in DOMAIN users }

\* C21: userId resolution.  The user.id of the options that
\* generateRegistrationOptions returns, which the stored challenge records,
\* is the supplied userId when one was supplied, else the userId of the
\* identity stored under the username when there is one, else a fresh one.
C21_UserIdResolution ==
  (returned.op = "generateRegistrationOptions" /\ returned.result.status = "ok")
  => LET id == returned.result.value.user.id
     IN /\ challenges[returned.username].userId = id
        /\ IF returned.userId # NoUserId
           THEN id = returned.userId
           ELSE IF MapHas(users, returned.username)
                THEN id = users[returned.username].userId
                ELSE id \notin StoredUserIds \cup SuppliedUserIds \cup {NoUserId}

\* The ceremony a stored challenge was issued for.  A Challenge carries no
\* ceremony field: generateRegistrationOptions always writes a userId
\* (userId || generateUserId()), generateAuthenticationOptions always writes
\* the blank one.
Ceremony(challenge) ==
  IF challenge.userId = NoUserId THEN "authentication" ELSE "registration"

CeremonyOf(op) ==
  IF op = "verifyRegistration" THEN "registration" ELSE "authentication"

\* C22: ceremony separation.  The challenge a verifyRegistration call has
\* obtained was issued for registration and the challenge a
\* verifyAuthentication call has obtained was issued for authentication;
\* and no step replaces the pending challenge of a key by a challenge of
\* the other ceremony.
C22_CeremonySeparation ==
  /\ [](\A t \in Tasks :
          (task[t].op \in VerifyOps /\ task[t].challenge # Null)
          => Ceremony(task[t].challenge) = CeremonyOf(task[t].op))
  /\ [][\A k \in DOMAIN challenges :
          (k \in DOMAIN challenges' /\ challenges'[k] # challenges[k])
          => Ceremony(challenges'[k]) = Ceremony(challenges[k])]_vars

\* C23: every stored identity has a userId, never the blank one that
\* generateAuthenticationOptions writes on its challenges.
C23_IdentityHasUserId ==
  \A u \in DOMAIN users : users[u].userId # NoUserId

\* The credentials of a list, each named by its id and public key.
Registered(credentials) ==
  { << credentials[i].id, credentials[i].publicKey >> : i \in DOMAIN credentials }

\* C24: no lost credential.  A credential in the list of an identity, put
\* there by a verifyRegistration that returned verified, is in that
\* identity's list in every later state, overlapping first registrations
\* of one username included.
C24_NoLostCredential ==
  [][\A u \in DOMAIN users :
       /\ u \in DOMAIN users'
       /\ Registered(users[u].credentials) \subseteq Registered(users'[u].credentials)]_vars

\* C25: index and list agree.  Whenever getUserByCredentialId(id) returns
\* an identity, the credential list of that identity contains id; so no
\* verifyAuthentication fails with 'Credential not found'.
C25_IndexedCredentialListed ==
  /\ \A id \in DOMAIN credentialIndex :
       getUserByCredentialId(id) # Null
       => HasCredential(getUserByCredentialId(id).credentials, id)
  /\ ~(returned.op = "verifyAuthentication" /\
       returned.result = Threw("Credential not found"))

(***************************************************************************)
(* Challenges.                                                             *)
(***************************************************************************)
\* C26: invalidation by replacement.  A challenge that saveChallenge has
\* replaced under its key is never returned again, by getAndDeleteChallenge
\* or by getAndDeleteChallengeByValue; and a lookup by the value of a
\* replaced challenge leaves the pending challenges as they are.
C26_InvalidationByReplacement ==
  /\ [](\A t \in Tasks :
          (task[t].op \in VerifyOps /\ task[t].challenge # Null)
          => task[t].challenge.challenge \notin replaced)
  /\ []((returned.op = "getAndDeleteChallengeByValue"
         /\ returned.result.value # Null)
        => returned.result.value.challenge \notin replaced)
  /\ [][(/\ returned'.op = "getAndDeleteChallengeByValue"
         /\ returned'.response.challengeValue \in replaced)
        => UNCHANGED challenges]_vars

\* The challenge with this value is pending under some key.
Pending(challengeValue) ==
  \E k \in DOMAIN challenges : challenges[k].challenge = challengeValue

\* The challenge with this value is pending, past its expiresAt.
PendingExpired(challengeValue) ==
  \E k \in DOMAIN challenges :
    challenges[k].challenge = challengeValue /\ Expired(challenges[k])

\* C27: every issued challenge is eventually destroyed, by a
\* lookup-and-delete or by the expiry sweep: one that is still pending when
\* its expiresAt has passed is removed at some later time.
C27_EveryChallengeDestroyed ==
  \A n \in 1..MaxTimedChallenges :
    PendingExpired(ChallengeValue(n)) ~> ~Pending(ChallengeValue(n))

(***************************************************************************)
(* Authentication.                                                         *)
(***************************************************************************)
\* C28: authentication result.  While the verifier of a verifyAuthentication
\* call is at work it has been handed the challenge the call took from the
\* store and the stored credential, public key and counter, that
\* getUserByCredentialId and find resolve for response.id; and a successful
\* call returns the userId and the username of that identity, whatever
\* username the caller supplied.
C28_AuthenticationResult ==
  /\ \A t \in Tasks :
       task[t].pc = "vauth_verify"
       => LET owner == getUserByCredentialId(task[t].response.id)
          IN /\ owner # Null
             /\ task[t].credential =
                  FindCredential(owner.credentials, task[t].response.id)
             /\ Count(consumed, task[t].challenge.challenge) >= 1
             /\ Count(verifierLog, task[t].challenge.challenge) >= 1
  /\ (returned.op = "verifyAuthentication" /\ returned.result.status = "ok")
     => LET owner == getUserByCredentialId(returned.response.id)
        IN /\ owner # Null
           /\ returned.result.value =
                [verified |-> TRUE, userId |-> owner.userId,
                 username |-> owner.username]

\* C28 witness: a verifyAuthentication called with one username succeeded
\* with the credential of another identity, and returned that identity.
C28_Witness ==
  /\ returned.op = "verifyAuthentication"
  /\ returned.result.status = "ok"
  /\ returned.username # NoUsername
  /\ returned.result.value.username # returned.username
  /\ returned.result.value.username = credentialIndex[returned.response.id]

\* The place of the credential that find and updateCredentialCounter reach
\* for an id: the first one in the list with that id.
FirstWithId(credentials, credentialId) ==
  CHOOSE i \in DOMAIN credentials :
    /\ credentials[i].id = credentialId
    /\ \A j \in 1..(i - 1) : credentials[j].id # credentialId

\* C29: counter persistence.  The step that ends a verifyAuthentication
\* call with success leaves, as the stored counter of the authenticated
\* credential, the new counter the verifier reported, and leaves every
\* other credential of every identity as it was; so after two successes in
\* a row the stored counter is the one the second reported.
C29_CounterPersistence ==
  [][(returned'.op = "verifyAuthentication" /\ returned'.result.status = "ok")
     => LET id == returned'.response.id
            owner == credentialIndex[id]
            first == FirstWithId(users[owner].credentials, id)
        IN /\ DOMAIN users' = DOMAIN users
           /\ users'[owner].credentials[first].counter = returned'.newCounter
           /\ \A u \in DOMAIN users :
                /\ DOMAIN users'[u].credentials = DOMAIN users[u].credentials
                /\ \A i \in DOMAIN users[u].credentials :
                     (u # owner \/ i # first)
                     => users'[u].credentials[i] = users[u].credentials[i]]_vars

\* C29 witness: after a registration and two authentication ceremonies, a
\* verifyAuthentication has succeeded with the largest counter and the
\* stored counter of its credential is that counter.
C29_Witness ==
  /\ returned.op = "verifyAuthentication"
  /\ returned.result.status = "ok"
  /\ nextChallenge = MaxAccountChallenges
  /\ returned.newCounter = MaxCounter
  /\ FindCredential(getUserByCredentialId(returned.response.id).credentials,
                    returned.response.id).counter = MaxCounter

\* The verifier has extracted no credential id that was registered already:
\* no id is twice in the store.
NoIdRegisteredTwice ==
  \A u1, u2 \in DOMAIN users :
    \A i \in DOMAIN users[u1].credentials, j \in DOMAIN users[u2].credentials :
      (u1 # u2 \/ i # j)
      => users[u1].credentials[i].id # users[u2].credentials[j].id

\* C30: credential resolution.  As long as the verifier has extracted no
\* credential id that was registered already, getUserByCredentialId(c.id)
\* returns, for every credential c in the list of the identity stored under
\* a username, that identity.
C30_CredentialResolution ==
  NoIdRegisteredTwice
  => \A u \in DOMAIN users :
       \A i \in DOMAIN users[u].credentials :
         getUserByCredentialId(users[u].credentials[i].id) = users[u]

\* C30 witness: an identity has two credentials, put there by saveUser and
\* by addCredential, no id is registered twice, and both resolve to it.
C30_Witness ==
  /\ NoIdRegisteredTwice
  /\ \E u \in DOMAIN users :
       /\ Len(users[u].credentials) = 2
       /\ \A i \in 1..2 :
            getUserByCredentialId(users[u].credentials[i].id) = users[u]

(***************************************************************************)
(* What the operations leave alone.                                        *)
(***************************************************************************)
\* The call of t takes a step.
Steps(t) == task'[t].pc # task[t].pc

\* C31: option generation touches the challenge entry of its own key only.
\* No step of generateRegistrationOptions or generateAuthenticationOptions
\* changes an identity, a credential, a counter or the credential index,
\* and each leaves the pending challenge of every key but the call's own
\* as it was.
C31_OptionGenerationFrame ==
  [][\A t \in Tasks :
       (Steps(t) /\ (task[t].op \in GenerateOps \/ task'[t].op \in GenerateOps))
       => /\ UNCHANGED << users, credentialIndex >>
          /\ \A k \in DOMAIN challenges :
               /\ k \in DOMAIN challenges'
               /\ challenges'[k] # challenges[k] => k = task[t].username]_vars

\* C31 witness: options were generated for a username with no identity
\* while the challenge of another key was pending, and it still is.
C31_Witness ==
  /\ returned.op \in GenerateOps
  /\ returned.result.status = "ok"
  /\ returned.username # NoUsername
  /\ ~MapHas(users, returned.username)
  /\ \E k \in DOMAIN challenges :
       /\ k # returned.username
       /\ challenges[k].challenge # returned.result.value.challenge

\* C32: store error outcomes.  addCredential for a username with no
\* identity throws 'User not found', updateCredentialCounter for a
\* credential id that is not in the credential index throws 'Credential not
\* found', and both leave users, credentials, counters and the index as
\* they were.
C32_StoreErrors ==
  [][/\ (returned'.op = "addCredential" /\ returned'.task # ""
         /\ ~MapHas(users, returned'.username))
        => /\ returned'.result = Threw("User not found")
           /\ UNCHANGED << users, credentialIndex >>
     /\ (returned'.op = "updateCredentialCounter" /\ returned'.task # ""
         /\ ~MapHas(credentialIndex, returned'.response.id))
        => /\ returned'.result = Threw("Credential not found")
           /\ UNCHANGED << users, credentialIndex >>]_vars

\* C32 witness: with an identity stored, updateCredentialCounter was called
\* for a credential id that is not indexed, and threw.
C32_Witness ==
  /\ returned.op = "updateCredentialCounter"
  /\ returned.result = Threw("Credential not found")
  /\ ~MapHas(credentialIndex, returned.response.id)
  /\ \E u \in DOMAIN users : users[u].credentials # << >>

\* This step is a call of cleanupExpiredChallenges: no request moves, none
\* ends and the clock stands.
Sweeps == task' = task /\ now' = now /\ returned' = NoReturn

\* C33: cleanupExpiredChallenges removes exactly the stored challenges whose
\* expiresAt is earlier than the current time.  After it the store holds,
\* under the keys and under the values, the challenges that had not expired
\* and no other, and users, credentials and the credential index are as
\* they were.
C33_SweepExact ==
  [][Sweeps
     => /\ challenges' =
             [k \in { k \in DOMAIN challenges :
                        ~(challenges[k].expiresAt < now) } |-> challenges[k]]
        /\ challengesByValue' =
             [v \in { v \in DOMAIN challengesByValue :
                        ~(challengesByValue[v].expiresAt < now) } |->
                challengesByValue[v]]
        /\ UNCHANGED << users, credentialIndex >>]_vars

(***************************************************************************)
(* Registration of a further credential.                                   *)
(***************************************************************************)
\* C34: second registration appends.  The step that ends, with success, a
\* verifyRegistration for a username that has an identity puts the new
\* credential at the end of that identity's list and leaves the earlier
\* credentials, in their order, with their keys and counters; the identity
\* keeps its userId and no identity is created or replaced.
C34_SecondRegistrationAppends ==
  [][\A t \in Tasks :
       ( /\ task[t].pc = "vreg_store"
         /\ returned'.task = t
         /\ returned'.result.status = "ok"
         /\ MapHas(users, task[t].username) )
       => users' =
            [users EXCEPT
               ![task[t].username] =
                  [@ EXCEPT !.credentials = Append(@, task[t].credential),
                            !.updatedAt = now]]]_vars

\* C34 witness: a second credential has just been registered for an
\* identity whose first credential had been used to authenticate; the list
\* holds the first, with its counter, and then the new one.
C34_Witness ==
  /\ returned.op = "verifyRegistration"
  /\ returned.result.status = "ok"
  /\ Len(users[returned.username].credentials) = 2
  /\ users[returned.username].credentials[1].counter > 0
  /\ users[returned.username].credentials[2].id =
       returned.result.value.credentialId
  /\ users[returned.username].credentials[2].counter = 0

(***************************************************************************)
(* The credential lists handed to the option builders.                     *)
(***************************************************************************)
\* The descriptors name, in order, exactly the credentials of the list: the
\* bytes of each descriptor encode to the stored id.
Describes(descriptors, credentials) ==
  /\ DOMAIN descriptors = DOMAIN credentials
  /\ \A i \in DOMAIN credentials :
       Base64UrlEncode(descriptors[i].id) = credentials[i].id

\* C35: allow-list.  generateAuthenticationOptions with no username hands
\* the option builder no allow-list; with the username of a stored identity
\* it hands it exactly that identity's credential ids; with a username that
\* has no identity it hands it the empty list; and with a username it
\* succeeds and stores its challenge under that username.
C35_AllowList ==
  (returned.op = "generateAuthenticationOptions")
  => /\ returned.result.status = "ok"
     /\ LET allow == returned.result.value.allowCredentials
        IN IF returned.username = NoUsername
           THEN DOMAIN allow = DOMAIN Null
           ELSE /\ MapHas(challenges, returned.username)
                /\ challenges[returned.username].challenge =
                     returned.result.value.challenge
                /\ IF MapHas(users, returned.username)
                   THEN Describes(allow, users[returned.username].credentials)
                   ELSE allow = << >>

\* C35 witness: options were generated for the username of an identity
\* that has a credential.
C35_Witness ==
  /\ returned.op = "generateAuthenticationOptions"
  /\ returned.result.status = "ok"
  /\ MapHas(users, returned.username)
  /\ Len(returned.result.value.allowCredentials) >= 1

\* C36: exclusion list.  generateRegistrationOptions hands the option
\* builder exactly the ids of the credentials stored for the username, and
\* the empty list when the username has no identity.
C36_ExclusionList ==
  (returned.op = "generateRegistrationOptions" /\ returned.result.status = "ok")
  => LET exclude == returned.result.value.excludeCredentials
     IN IF MapHas(users, returned.username)
        THEN Describes(exclude, users[returned.username].credentials)
        ELSE exclude = << >>

\* C36 witness: registration options were generated for the username of an
\* identity that has two credentials, and the list names both.
C36_Witness ==
  /\ returned.op = "generateRegistrationOptions"
  /\ returned.result.status = "ok"
  /\ MapHas(users, returned.username)
  /\ Len(users[returned.username].credentials) = 2
  /\ Len(returned.result.value.excludeCredentials) = 2

(***************************************************************************)
(* Loading the service.                                                    *)
(***************************************************************************)
\* C37: custom storage in production.  When the application supplies
\* config.storage, loading and constructing the PasskeyService never fails,
\* NODE_ENV "production" included, and the service then uses that storage;
\* the MemoryStorage constructor throws only where MemoryStorage is the
\* storage in use.
C37_CustomStorageInProduction ==
  /\ service.config = "custom"
     => /\ service.state # "failed"
        /\ memoryStorage # "threw"
        /\ service.state = "constructed" => service.storage = "custom"
  /\ memoryStorage = "threw" => service.config = "none"

(***************************************************************************)
(* Overlapping calls through the hook.                                     *)
(***************************************************************************)
InFlight(b) == calls[b].hook /\ calls[b].pc # "idle"

\* C38: usePasskey with overlapping calls.  While at least one register or
\* authenticate call started through the hook is in flight, isLoading is
\* true; isLoading becomes false only when no call is in flight; and when a
\* call ends in a failure that carries an error message, the hook's error is
\* that message, whichever calls finished before it.
C38_OverlappingCalls ==
  /\ []((\E b \in BrowserCalls : InFlight(b)) => isLoading)
  /\ [][/\ (isLoading /\ ~isLoading')
             => \A b \in BrowserCalls :
                  ~calls'[b].hook \/ calls'[b].pc = "idle"
        /\ \A b \in BrowserCalls :
             (/\ calls[b].pc = "hook_result"
              /\ calls'[b].pc = "idle"
              /\ ~calls[b].result.success
              /\ calls[b].result.error # "")
             => error' = [message |-> calls[b].result.error]
       ]_vars

(***************************************************************************)
(* saveUser.                                                               *)
(***************************************************************************)
\* C39: saveUser is idempotent and replaces by username.  In the state a
\* saveUser(identity) call leaves, getUserByUsername(identity.username) is
\* that identity, getUserByCredentialId is that identity for every
\* credential id it owns, and a second saveUser of the same identity would
\* leave users and credentialIndex as they are.
C39_SaveUser ==
  (returned.task # "" /\ returned.op = "saveUser") =>
    LET user == returned.response
    IN /\ getUserByUsername(user.username) = user
       /\ \A id \in CredentialIdsOf(user.credentials) :
            getUserByCredentialId(id) = user
       /\ ENABLED (saveUser(user) /\ UNCHANGED << users, credentialIndex >>)

\* C39 witness: saveUser has just replaced an identity by one that owns two
\* different credential ids, while another identity is stored.
C39_Witness ==
  /\ returned.task # ""
  /\ returned.op = "saveUser"
  /\ Cardinality(CredentialIdsOf(returned.response.credentials)) = 2
  /\ \E other \in DOMAIN users : other # returned.username

====
